---- MODULE Spec2Model ----
(***************************************************************************)
(* Verification model of the AFIP ticket-and-sequencing engine             *)
(* (src/src/modules/afip/afip.service.ts, AfipService): ticket             *)
(* acquisition, last-authorized lookup, voucher number/date                *)
(* reconciliation and submission, TRA signing with staged files, and the   *)
(* per-environment URL selection.                                          *)
(*                                                                         *)
(* JavaScript strings are sequences of tokens (TLA+ strings): one token    *)
(* per character for digits and '-', one token per word for message text.  *)
(* An optional value is a sequence of length 0 (undefined) or 1.           *)
(***************************************************************************)
EXTENDS Integers, Sequences, FiniteSets, TLC

(***************************************************************************)
(* Bounds of the model.                                                    *)
(***************************************************************************)
\* largest last-authorized number the remote service answers with
MaxNro == 2
\* the clock runs over 0..MaxTime
MaxTime == 3
\* lifetime of a freshly issued ticket, in clock ticks
TicketLife == 2
\* calls of signTRA in a row
MaxSigns == 1
\* calls of generateQrData in a row
MaxQrCalls == 2

(***************************************************************************)
(* Program constants.                                                      *)
(***************************************************************************)
\* fault code the lookup treats as "no prior voucher"
NotFoundCode == 10015
\* HTTP status the lookup treats as "no prior voucher"
NotFoundStatus == 404
\* TipoDocumento.CONSUMIDOR_FINAL
ConsumidorFinal == 99
\* CondicionIvaReceptor.IVA_RESPONSABLE_INSCRIPTO
IVA_RESPONSABLE_INSCRIPTO == 1
\* CondicionIvaReceptor.CONSUMIDOR_FINAL
CONSUMIDOR_FINAL == 5
\* AlicuotaIva.IVA_21, the Id of the breakdown entry the builder makes up
IVA_21 == 5

(***************************************************************************)
(* Strings.                                                                *)
(***************************************************************************)
DigitChars == <<"0", "1", "2", "3", "4", "5", "6", "7", "8", "9">>

IsDigit(c) == \E i \in 1..10 : DigitChars[i] = c

DigitVal(c) == (CHOOSE i \in 1..10 : DigitChars[i] = c) - 1

\* UTF-16 code unit of the characters that are compared: '-' sorts before
\* the digits
CharCode(c) == IF IsDigit(c) THEN 48 + DigitVal(c) ELSE 45

\* String.prototype.toLowerCase on one token
LowerToken(t) ==
    CASE t = "Not" -> "not"
      [] t = "Found" -> "found"
      [] t = "NOT" -> "not"
      [] t = "FOUND" -> "found"
      [] t = "No" -> "no"
      [] t = "Encontrado" -> "encontrado"
      [] t = "Sin" -> "sin"
      [] t = "Comprobantes" -> "comprobantes"
      [] OTHER -> t

ToLowerCase(s) == [i \in 1..Len(s) |-> LowerToken(s[i])]

\* String.prototype.includes
Includes(s, sub) ==
    \E i \in 0..(Len(s) - Len(sub)) : SubSeq(s, i + 1, i + Len(sub)) = sub

\* the relational operator < on two strings: code units, left to right
RECURSIVE StrLess(_, _)
StrLess(a, b) ==
    IF b = <<>> THEN FALSE
    ELSE IF a = <<>> THEN TRUE
    ELSE IF CharCode(Head(a)) # CharCode(Head(b))
         THEN CharCode(Head(a)) < CharCode(Head(b))
         ELSE StrLess(Tail(a), Tail(b))

\* String(n) for n >= 0
RECURSIVE NumToStr(_)
NumToStr(n) ==
    IF n < 10 THEN <<DigitChars[n + 1]>>
    ELSE NumToStr(n \div 10) \o <<DigitChars[(n % 10) + 1]>>

\* String.prototype.padStart(2, '0')
PadStart2(s) == IF Len(s) < 2 THEN <<"0">> \o s ELSE s

\* String.prototype.replace(/-/g, '')
RECURSIVE RemoveDashes(_)
RemoveDashes(s) ==
    IF s = <<>> THEN <<>>
    ELSE IF Head(s) = "-" THEN RemoveDashes(Tail(s))
    ELSE <<Head(s)>> \o RemoveDashes(Tail(s))

\* value of the longest prefix of digits of s, read left to right
RECURSIVE DigitPrefixVal(_, _)
DigitPrefixVal(s, acc) ==
    IF s = <<>> \/ ~IsDigit(Head(s)) THEN acc
    ELSE DigitPrefixVal(Tail(s), 10 * acc + DigitVal(Head(s)))

\* parseInt(s): <<>> is NaN
ParseInt(s) ==
    IF s = <<>> \/ ~IsDigit(Head(s)) THEN <<>> ELSE <<DigitPrefixVal(s, 0)>>

(***************************************************************************)
(* Calendar dates: the local date of the clock, month counted from 0 as    *)
(* Date.prototype.getMonth does.                                           *)
(***************************************************************************)
Calendar ==
    { [year |-> 2024, month0 |-> 10, day |-> 26],
      [year |-> 2024, month0 |-> 11, day |-> 5],
      [year |-> 2025, month0 |-> 0,  day |-> 9] }

\* `${year}${month}${day}` with month = getMonth() + 1, both padded
FechaActual(d) ==
    NumToStr(d.year) \o PadStart2(NumToStr(d.month0 + 1)) \o PadStart2(NumToStr(d.day))

\* the dates on which the run takes place
Todays == { d \in Calendar : d.month0 > 0 }

\* the YYYYMMDD strings of the model
Fechas == { FechaActual(d) : d \in Calendar }

\* the calendar order of two YYYYMMDD strings: the number they spell
FechaNum(f) == DigitPrefixVal(f, 0)

(***************************************************************************)
(* getUltimoAutorizado: what the SOAP layer hands to the callbacks and     *)
(* what the promise settles to.                                            *)
(***************************************************************************)
NOT_FOUND == <<"not", " ", "found">>
NO_ENCONTRADO == <<"no", " ", "encontrado">>
SIN_COMPROBANTES == <<"sin", " ", "comprobantes">>
DIGITS_404 == NumToStr(NotFoundStatus)

\* a settled promise: resolved with {CbteNro, CbteFch}, rejected with an
\* exception carrying a message, or never settled because the callback threw
Resolved(nro, fch) ==
    [kind |-> "resolved", CbteNro |-> nro, CbteFch |-> fch, message |-> <<>>]
Rejected(msg) ==
    [kind |-> "rejected", CbteNro |-> 0, CbteFch |-> <<>>, message |-> msg]
Threw == [kind |-> "threw", CbteNro |-> 0, CbteFch |-> <<>>, message |-> <<>>]

\* JSON.stringify(err): the own enumerable properties of the error object
\* (message is not one of them on an Error)
Stringify(err) ==
    <<"{">>
    \o (IF err.body # <<>> THEN <<"body", ":">> \o err.body ELSE <<>>)
    \o (IF err.root.kind = "text" THEN <<"root", ":">> \o err.root.text ELSE <<>>)
    \o (IF err.root.kind = "object" THEN <<"root", ":", "{", "Envelope", "}">> ELSE <<>>)
    \o (IF err.statusCode # <<>>
        THEN <<"statusCode", ":">> \o NumToStr(err.statusCode[1]) ELSE <<>>)
    \o (IF err.status # <<>>
        THEN <<"status", ":">> \o NumToStr(err.status[1]) ELSE <<>>)
    \o <<"}">>

\* the isNotFound test of the FECompUltimoAutorizado callback
IsNotFound(err) ==
    LET errorMessage ==
            ToLowerCase(IF err.message # <<>> THEN err.message ELSE <<"Error">>)
        errorString == ToLowerCase(Stringify(err))
        errorBody == ToLowerCase(err.body)
        errorRoot == ToLowerCase(err.root.text)
    IN  \/ Includes(errorMessage, NOT_FOUND)
        \/ Includes(errorMessage, NO_ENCONTRADO)
        \/ Includes(errorMessage, DIGITS_404)
        \/ Includes(errorString, NOT_FOUND)
        \/ Includes(errorString, NO_ENCONTRADO)
        \/ Includes(errorString, DIGITS_404)
        \/ Includes(errorBody, NOT_FOUND)
        \/ Includes(errorBody, NO_ENCONTRADO)
        \/ Includes(errorRoot, NOT_FOUND)
        \/ Includes(errorRoot, NO_ENCONTRADO)
        \/ err.statusCode = <<NotFoundStatus>>
        \/ err.status = <<NotFoundStatus>>

\* the err branch of the FECompUltimoAutorizado callback; a root that is an
\* object has no toLowerCase, so computing errorRoot throws
OnLookupError(err, today) ==
    IF err.root.kind = "object" THEN Threw
    ELSE IF IsNotFound(err) THEN Resolved(0, FechaActual(today))
    ELSE Rejected(<<"Error", " ", "en", " ", "FECompUltimoAutorizado", ":", " ">>
                  \o err.message)

\* data.Errors && data.Errors.length > 0: only an array has a length
HasErrorsLength(errors) == errors.shape = "flat" /\ Len(errors.list) > 0

\* the predicate without its test of the code: message text only
IsNotFoundFault_TextOnly(e) ==
    \/ Includes(ToLowerCase(e.Msg), NO_ENCONTRADO)
    \/ Includes(ToLowerCase(e.Msg), NOT_FOUND)
    \/ Includes(ToLowerCase(e.Msg), SIN_COMPROBANTES)

\* the predicate given to data.Errors.some
IsNotFoundFault(e) ==
    \/ e.Code = NotFoundCode
    \/ Includes(ToLowerCase(e.Msg), NO_ENCONTRADO)
    \/ Includes(ToLowerCase(e.Msg), NOT_FOUND)
    \/ Includes(ToLowerCase(e.Msg), SIN_COMPROBANTES)

\* data.Errors.map(e => `${e.Code}: ${e.Msg}`).join(', ')
RECURSIVE JoinFaults(_)
JoinFaults(list) ==
    IF list = <<>> THEN <<>>
    ELSE NumToStr(Head(list).Code) \o <<":", " ">> \o Head(list).Msg
         \o (IF Tail(list) = <<>> THEN <<>> ELSE <<",", " ">> \o JoinFaults(Tail(list)))

\* the result branch of the FECompUltimoAutorizado callback
OnLookupResult(result, today) ==
    IF result.data = <<>> THEN Threw
    ELSE LET data == result.data[1] IN
         IF HasErrorsLength(data.Errors)
         THEN IF \E i \in 1..Len(data.Errors.list) : IsNotFoundFault(data.Errors.list[i])
              THEN Resolved(0, FechaActual(today))
              ELSE Rejected(<<"Error", " ", "de", " ", "AFIP", " ", "en", " ",
                              "FECompUltimoAutorizado", ":", " ">>
                            \o JoinFaults(data.Errors.list))
         ELSE LET ultimoNro == IF data.CbteNro = <<>> THEN 0 ELSE data.CbteNro[1]
                  ultimoFch == IF data.CbteFch = <<>> THEN FechaActual(today)
                               ELSE data.CbteFch
              IN  Resolved(ultimoNro, ultimoFch)

\* the callback of client.FECompUltimoAutorizado
OnLookupCallback(cb, today) ==
    IF cb.err # <<>> THEN OnLookupError(cb.err[1], today)
    ELSE OnLookupResult(cb.result, today)

\* the err branch of the soap.createClient callback of the lookup
OnLookupClientError(msg) ==
    Rejected(<<"Error", " ", "al", " ", "crear", " ", "cliente", " ", "SOAP", " ",
               "WSFE", ":", " ">> \o msg)

(***************************************************************************)
(* Credential material: PEM text, its base64 encoding, and the checks of   *)
(* signTRA.                                                                *)
(***************************************************************************)
PEM_BEGIN == "-----BEGIN"
PEM_END == "-----END"

\* base64 of the tokens credential text is made of: <<plain, encoded>>;
\* the last two rows are the encodings of encodings
Base64Table ==
    { <<"-----BEGIN", "LS0tLS1CRUdJTg">>,
      <<"-----END", "LS0tLS1FTkQ">>,
      <<"CERTIFICATE", "Q0VSVElGSUNBVEU">>,
      <<"PRIVATE KEY", "UFJJVkFURSBLRVk">>,
      <<"MIID", "TUlJRA">>,
      <<"LS0tLS1CRUdJTg", "TFMwdExTMUNSVWRKVGc">>,
      <<"LS0tLS1FTkQ", "TFMwdExTMUZUa1E">>,
      <<"Q0VSVElGSUNBVEU", "UTBWU1ZFbEdTVU5CVkVV">>,
      <<"UFJJVkFURSBLRVk", "VUZKSlZrRlVSU0JMUlZr">>,
      <<"TUlJRA", "VFVsSlJB">> }

Base64EncodeToken(t) == (CHOOSE r \in Base64Table : r[1] = t)[2]

\* Buffer.from(t, 'base64').toString('utf8') never throws: text that is not
\* the encoding of anything readable decodes to replacement characters
Base64DecodeToken(t) ==
    IF \E r \in Base64Table : r[2] = t
    THEN (CHOOSE r \in Base64Table : r[2] = t)[1]
    ELSE "?"

Base64Encode(s) == [i \in 1..Len(s) |-> Base64EncodeToken(s[i])]
Base64Decode(s) == [i \in 1..Len(s) |-> Base64DecodeToken(s[i])]

\* certContent / keyContent: decoded once when the value has no BEGIN marker
DecodeCredential(value) ==
    IF ~Includes(value, <<PEM_BEGIN>>) THEN Base64Decode(value) ELSE value

\* the header check of signTRA on decoded content
HasPemHeaders(content) ==
    Includes(content, <<PEM_BEGIN>>) /\ Includes(content, <<PEM_END>>)

\* !certificado || !clavePrivada
CredentialsMissing(certificado, clavePrivada) ==
    certificado = <<>> \/ clavePrivada = <<>>

\* signTRA gets past its validation
CredentialsAccepted(certificado, clavePrivada) ==
    /\ ~CredentialsMissing(certificado, clavePrivada)
    /\ HasPemHeaders(DecodeCredential(certificado))
    /\ HasPemHeaders(DecodeCredential(clavePrivada))

PemCert == <<"-----BEGIN", "CERTIFICATE", "MIID", "-----END", "CERTIFICATE">>
PemKey == <<"-----BEGIN", "PRIVATE KEY", "MIID", "-----END", "PRIVATE KEY">>

(***************************************************************************)
(* signTRA: staging of the three files, the signer, the cleanup.           *)
(***************************************************************************)
StagedKinds == <<"tra", "cert", "key">>

\* what the file system and the signer do to one call: whether tmp/ is
\* there, the operation that fails (mkdir only runs when tmp/ is missing),
\* whether a failed write leaves its file behind, and the unlink that throws
SignEnvs ==
    [tmpDir : BOOLEAN,
     failAt : {"none", "mkdir", "writeTra", "writeCert", "writeKey", "chmod", "exec"},
     partial : BOOLEAN,
     unlinkFails : {"none", "tra", "cert", "key"}]

\* the operation that fails in the call, "none" when the one named by the
\* environment is not reached
FaultOf(env) == IF env.failAt = "mkdir" /\ env.tmpDir THEN "none" ELSE env.failAt

\* the files on disk when the try block is left
Written(fault, partial) ==
    CASE fault = "writeTra" -> IF partial THEN {"tra"} ELSE {}
      [] fault = "writeCert" -> {"tra"} \cup (IF partial THEN {"cert"} ELSE {})
      [] fault = "writeKey" -> {"tra", "cert"} \cup (IF partial THEN {"key"} ELSE {})
      [] OTHER -> {"tra", "cert", "key"}

\* the finally block: one try around the three existsSync/unlinkSync
\* pairs, so the first unlink that throws ends the cleanup
RECURSIVE Cleanup(_, _, _)
Cleanup(order, files, unlinkFails) ==
    IF order = <<>> THEN files
    ELSE IF Head(order) \notin files THEN Cleanup(Tail(order), files, unlinkFails)
    ELSE IF Head(order) = unlinkFails THEN files
    ELSE Cleanup(Tail(order), files \ {Head(order)}, unlinkFails)

SignReturn(result, fault, staged, left, signer, unlinkError) ==
    [result |-> result, fault |-> fault, staged |-> staged, left |-> left,
     signer |-> signer, unlinkError |-> unlinkError]

\* signTRA(tra, certificado, clavePrivada) in environment env: how it ends,
\* the files it wrote, the files it left, whether openssl ran, and the
\* unlink that threw
SignTRA(certificado, clavePrivada, env) ==
    LET fault == FaultOf(env) IN
    IF CredentialsMissing(certificado, clavePrivada)
    THEN SignReturn("missing", "none", {}, {}, FALSE, "none")
    ELSE IF fault = "mkdir"
    THEN SignReturn("mkdirFailed", fault, {}, {}, FALSE, "none")
    ELSE IF ~CredentialsAccepted(certificado, clavePrivada)
    THEN SignReturn("invalid", "none", {}, {}, FALSE, "none")
    ELSE LET staged == Written(fault, env.partial)
             left == Cleanup(StagedKinds, staged, env.unlinkFails)
             signer == fault \in {"exec", "none"}
             result == CASE fault = "none" -> "signed"
                         [] fault = "exec" -> "signerFailed"
                         [] OTHER -> "stagingFailed"
         IN  SignReturn(result, fault, staged, left, signer,
                        IF env.unlinkFails \in left THEN env.unlinkFails ELSE "none")

(***************************************************************************)
(* Tickets.                                                                *)
(***************************************************************************)
\* the ISO text of the instant t, as the authentication service writes
\* generationTime and expirationTime: a date-time prefix, then the clock
IsoTime(t) == <<"T">> \o NumToStr(t)

\* new Date(text).getTime(): the instant an ISO text denotes, <<>> (NaN, an
\* Invalid Date) for any other text
ParseDate(text) ==
    IF /\ Len(text) >= 2
       /\ Head(text) = "T"
       /\ \A i \in 2..Len(text) : IsDigit(text[i])
    THEN ParseInt(Tail(text))
    ELSE <<>>

\* the validity test with the boundary instant counted as valid
validateTicket_AtExpiry(ticket, t) ==
    LET expiration == ParseDate(ticket.expirationTime)
    IN  expiration # <<>> /\ expiration[1] >= t

\* validateTicket(ticket) at clock value t
validateTicket(ticket, t) ==
    LET expiration == ParseDate(ticket.expirationTime)
    IN  expiration # <<>> /\ expiration[1] > t

(***************************************************************************)
(* createInvoice: number, date and receiver-document reconciliation.       *)
(***************************************************************************)
\* ultimo.CbteNro || 0, plus one
ProximoNumero(ultimo) == ultimo.CbteNro + 1

\* the reconciliation without its overwrite: a positive caller number wins
NumeroAUsar_KeepsCaller(numeroComprobante, proximoNumero) ==
    IF numeroComprobante # <<>> /\ numeroComprobante[1] > 0
    THEN numeroComprobante[1]
    ELSE proximoNumero

\* the caller's number when it is positive, else the next one; then
\* overwritten by the next one whenever the two differ
NumeroAUsar(numeroComprobante, proximoNumero) ==
    LET pedido == IF numeroComprobante # <<>> /\ numeroComprobante[1] > 0
                  THEN numeroComprobante[1]
                  ELSE proximoNumero
    IN  IF pedido # proximoNumero THEN proximoNumero ELSE pedido

\* the date reconciliation with its comparison turned around
FechaCbte_Reversed(fechaComprobante, ultimaFecha) ==
    IF ultimaFecha # <<>> /\ StrLess(ultimaFecha, fechaComprobante)
    THEN ultimaFecha
    ELSE fechaComprobante

\* the caller's date, raised to the last authorized date when it sorts
\* before it
FechaCbte(fechaComprobante, ultimaFecha) ==
    IF ultimaFecha # <<>> /\ StrLess(fechaComprobante, ultimaFecha)
    THEN ultimaFecha
    ELSE fechaComprobante

\* a rule that parses the number of every receiver, the final consumer too
DocNro_ParsesAll(tipoDocumento, cuitCliente) ==
    LET parsed == IF cuitCliente = <<"0">> THEN <<0>>
                  ELSE ParseInt(RemoveDashes(cuitCliente))
    IN  IF parsed = <<>> \/ parsed[1] <= 0
        THEN (IF tipoDocumento = ConsumidorFinal THEN <<0>> ELSE <<>>)
        ELSE parsed

\* docNro: <<n>>, or <<>> when the BadRequestException is thrown
DocNro(tipoDocumento, cuitCliente) ==
    IF tipoDocumento = ConsumidorFinal THEN <<0>>
    ELSE LET parsed == IF cuitCliente = <<"0">> THEN <<0>>
                       ELSE ParseInt(RemoveDashes(cuitCliente))
         IN  IF parsed = <<>> \/ parsed[1] <= 0 THEN <<>> ELSE parsed

\* the catch around the awaited lookup: a rejection whose message names
\* "not found" is replaced by the first-voucher value, any other is
\* thrown again
CatchLookup(settled, today) ==
    IF settled.kind # "rejected" THEN settled
    ELSE LET errorMessage == ToLowerCase(settled.message)
         IN  IF Includes(errorMessage, NOT_FOUND) \/ Includes(errorMessage, NO_ENCONTRADO)
             THEN Resolved(0, FechaActual(today))
             ELSE settled

(***************************************************************************)
(* createInvoice: the voucher detail.                                      *)
(***************************************************************************)
\* getClaseComprobante(tipoComprobante)
getClaseComprobante(tipoComprobante) ==
    CASE tipoComprobante \in {1, 2, 3, 4} -> "A"
      [] tipoComprobante \in {6, 7, 8, 9} -> "B"
      [] tipoComprobante \in {11, 12, 13, 15} -> "C"
      [] tipoComprobante \in {51, 52, 53} -> "M"
      [] tipoComprobante \in {201, 202, 203} -> "FCE_A"
      [] tipoComprobante \in {206, 207, 208} -> "FCE_B"
      [] tipoComprobante \in {211, 212, 213} -> "FCE_C"
      [] OTHER -> "C"

\* esFacturaCreditoElectronica(tipoComprobante)
esFacturaCreditoElectronica(tipoComprobante) ==
    tipoComprobante \in {201, 202, 203, 206, 207, 208, 211, 212, 213}

\* getCondicionesIvaValidas(clase)
getCondicionesIvaValidas(clase) ==
    CASE clase \in {"A", "M", "FCE_A"} -> {1, 6, 13, 16}
      [] clase \in {"B", "FCE_B"} -> {4, 5, 7, 8, 9, 10, 15}
      [] clase \in {"C", "FCE_C"} -> {1, 4, 5, 6, 7, 8, 9, 10, 13, 15, 16}
      [] OTHER -> {}

\* a || b on an optional string: '' counts as absent
OrText(value, default) == IF value # <<>> /\ value[1] # <<>> THEN value[1] ELSE default

\* a || b on an optional number: 0 counts as absent
OrNumber(value, default) == IF value # <<>> /\ value[1] # 0 THEN value[1] ELSE default

\* the default of a builder that gives every class the final-consumer code
CondicionIva_AlwaysFinal(dto, clase) ==
    IF dto.condicionIvaReceptor = <<>> \/ dto.condicionIvaReceptor[1] = 0
    THEN CONSUMIDOR_FINAL
    ELSE dto.condicionIvaReceptor[1]

\* condicionIva: the caller's value, or the default of the class; a value
\* outside getCondicionesIvaValidas only makes the service log a warning
CondicionIva(dto, clase) ==
    IF dto.condicionIvaReceptor = <<>> \/ dto.condicionIvaReceptor[1] = 0
    THEN CASE clase \in {"A", "M", "FCE_A"} -> IVA_RESPONSABLE_INSCRIPTO
           [] clase \in {"B", "FCE_B"} -> CONSUMIDOR_FINAL
           [] clase \in {"C", "FCE_C"} -> CONSUMIDOR_FINAL
    ELSE dto.condicionIvaReceptor[1]

\* detalle.Iva.AlicIva: the caller's array, or one 21% entry for classes A,
\* B and M with a VAT amount; <<>> when detalle gets no Iva
Iva(dto, clase) ==
    IF dto.iva # <<>>
    THEN [i \in 1..Len(dto.iva) |->
            [Id |-> dto.iva[i].Id, BaseImp |-> dto.iva[i].BaseImp, Importe |-> dto.iva[i].Importe]]
    ELSE IF dto.importeIva > 0 /\ clase \in {"A", "B", "M"}
    THEN <<[Id |-> IVA_21, BaseImp |-> dto.importeNetoGravado, Importe |-> dto.importeIva]>>
    ELSE <<>>

\* detalle.FchServDesde and detalle.FchServHasta
FchServDesde(dto, fechaCbte) ==
    IF dto.concepto \in {2, 3} THEN <<OrText(dto.fechaServicioDesde, fechaCbte)>> ELSE <<>>

FchServHasta(dto, fechaCbte) ==
    IF dto.concepto \in {2, 3} THEN <<OrText(dto.fechaServicioHasta, fechaCbte)>> ELSE <<>>

\* the payment date of a builder without the credit-invoice branch
FchVtoPago_ServiciosOnly(dto, fechaCbte) ==
    IF dto.concepto \in {2, 3} THEN <<OrText(dto.fechaVencimientoPago, fechaCbte)>> ELSE <<>>

\* detalle.FchVtoPago: set from fceVtoPago for a credit invoice, then set
\* again, over it, for concepts 2 and 3
FchVtoPago(dto, fechaCbte) ==
    LET fce == IF /\ esFacturaCreditoElectronica(dto.tipoComprobante)
                  /\ dto.fceVtoPago # <<>> /\ dto.fceVtoPago[1] # <<>>
               THEN dto.fceVtoPago
               ELSE <<>>
    IN  IF dto.concepto \in {2, 3}
        THEN <<OrText(dto.fechaVencimientoPago, fechaCbte)>>
        ELSE fce

(***************************************************************************)
(* createInvoice: the FECAESolicitar response and its normalisation.       *)
(***************************************************************************)
\* an element of Errors or of Observaciones: an object with an optional
\* Code and an optional Msg, or a plain string (kept in Msg)
Obs(code, msg) == [kind |-> "object", Code |-> code, Msg |-> msg]
ObsString(text) == [kind |-> "string", Code |-> <<>>, Msg |-> <<text>>]

\* what the forEach bodies push for one element: <<>> when nothing is
\* pushed; coded tells whether observacionesDetalladas receives it too.
\* The bodies differ in their last branches: the header loop knows
\* neither strings nor the stringify fallback, the Obs loop knows strings,
\* the direct-array loop knows both.
Pushed(obs, strings, fallback) ==
    LET hasMsg == obs.kind = "object" /\ obs.Msg # <<>> /\ obs.Msg[1] # <<>>
        hasCode == obs.kind = "object" /\ obs.Code # <<>> /\ obs.Code[1] # 0
        \* JSON.stringify of an element that has no Msg
        stringified ==
            IF obs.kind = "string" THEN <<"\"">> \o obs.Msg[1] \o <<"\"">>
            ELSE IF obs.Code # <<>>
                 THEN <<"{", "\"Code\":">> \o NumToStr(obs.Code[1]) \o <<"}">>
            ELSE <<"{", "}">>
    IN  IF hasCode /\ hasMsg
        THEN <<[coded |-> TRUE, code |-> obs.Code[1], msg |-> obs.Msg[1]]>>
        ELSE IF hasMsg
        THEN <<[coded |-> FALSE, code |-> 0, msg |-> obs.Msg[1]]>>
        ELSE IF strings /\ obs.kind = "string"
        THEN <<[coded |-> FALSE, code |-> 0, msg |-> obs.Msg[1]]>>
        ELSE IF fallback
        THEN <<[coded |-> FALSE, code |-> 0, msg |-> stringified]>>
        ELSE <<>>

RECURSIVE PushAll(_, _, _)
PushAll(list, strings, fallback) ==
    IF list = <<>> THEN <<>>
    ELSE Pushed(Head(list), strings, fallback) \o PushAll(Tail(list), strings, fallback)

\* the header part: only Errors.Err is read, as an array or as one object
HeaderPushed(errors) ==
    IF errors.shape \in {"nestedArray", "nestedSingle"}
    THEN PushAll(errors.list, FALSE, FALSE)
    ELSE <<>>

\* the detail part: Observaciones.Obs (array or one object), a direct
\* array, one object with a Msg, or a string
DetailPushed(observaciones) ==
    CASE observaciones.shape \in {"nestedArray", "nestedSingle"} ->
            PushAll(observaciones.list, TRUE, FALSE)
      [] observaciones.shape = "flat" ->
            PushAll(observaciones.list, TRUE, TRUE)
      [] observaciones.shape = "object" ->
            IF observaciones.list[1].Msg # <<>> /\ observaciones.list[1].Msg[1] # <<>>
            THEN <<[coded |-> FALSE, code |-> 0, msg |-> observaciones.list[1].Msg[1]]>>
            ELSE <<>>
      [] observaciones.shape = "string" ->
            <<[coded |-> FALSE, code |-> 0, msg |-> observaciones.list[1].Msg[1]]>>
      [] OTHER -> <<>>

\* the array observaciones: one string per pushed element, `${code}: ${msg}`
\* for a coded element and the text itself otherwise
Observaciones(pushed) ==
    [i \in 1..Len(pushed) |->
        IF pushed[i].coded
        THEN NumToStr(pushed[i].code) \o <<":", " ">> \o pushed[i].msg
        ELSE pushed[i].msg]

\* the array observacionesDetalladas: the coded elements, in order
RECURSIVE ObservacionesDetalladas(_)
ObservacionesDetalladas(pushed) ==
    IF pushed = <<>> THEN <<>>
    ELSE (IF Head(pushed).coded
          THEN <<[code |-> Head(pushed).code, msg |-> Head(pushed).msg]>>
          ELSE <<>>) \o ObservacionesDetalladas(Tail(pushed))

\* exception.observaciones of a rejected voucher
ExceptionObservaciones(pushed) ==
    IF ObservacionesDetalladas(pushed) # <<>>
    THEN ObservacionesDetalladas(pushed)
    ELSE [i \in 1..Len(pushed) |-> [code |-> 0, msg |-> Observaciones(pushed)[i]]]

\* lines.join('\n')
RECURSIVE JoinLines(_)
JoinLines(lines) ==
    IF lines = <<>> THEN <<>>
    ELSE IF Len(lines) = 1 THEN lines[1]
    ELSE lines[1] \o <<"\n">> \o JoinLines(Tail(lines))

\* the message of the exception of a rejected voucher
RejectionMessage(pushed) ==
    LET detalladas == ObservacionesDetalladas(pushed)
    IN  <<"Factura rechazada por AFIP">> \o
        (IF detalladas # <<>>
         THEN <<":", "\n">> \o
              JoinLines([i \in 1..Len(detalladas) |->
                            <<"[">> \o NumToStr(detalladas[i].code) \o <<"]", " ">>
                                \o detalladas[i].msg])
         ELSE IF pushed # <<>>
         THEN <<":", "\n">> \o JoinLines(Observaciones(pushed))
         ELSE <<" sin observaciones especificas">>)

(***************************************************************************)
(* The state: one createInvoice run, the calls of signTRA, the endpoint    *)
(* selection and the calls of generateQrData.                              *)
(***************************************************************************)
VARIABLES
    pc,           \* where the run stands
    now,          \* the clock
    today,        \* the local calendar date of the clock
    invoiceData,  \* the CreateInvoiceDto of the call
    ticketArg,    \* the optional ticket argument of the call
    ticketCheck,  \* <<[at, valid]>> once validateTicket has been evaluated
    authTicket,   \* the ticket in use
    signerRuns,   \* how often the external signer has been run
    calls,        \* the remote operations requested so far, in order
    lookupCb,     \* what the SOAP layer answered to the lookup
    lookupPromise,\* what the promise of getUltimoAutorizado settled to
    ultimo,       \* the local ultimo of createInvoice, once assigned
    fecaeReq,     \* the request handed to FECAESolicitar
    submitCb,     \* what the SOAP layer answered to the submission
    outcome,      \* what the promise of createInvoice settled to
    signCalls,    \* how many calls of signTRA have ended
    tmpDir,       \* whether the tmp directory exists
    disk,         \* the staged files on disk: [kind, call]
    unlinkErrors, \* the files whose unlinkSync threw: [kind, call]
    signInput,    \* the credentials of the last signTRA call
    signReturn,   \* how the last signTRA call ended
    processEnv,   \* the environment variables of the process
    contacted,    \* the last operation and the endpoints it contacted
    qrCalls,       \* the calls of generateQrData so far: [params, at, result]
    runs,         \* the createInvoice runs that execute side by side, by number
    remoteUltimo  \* the last voucher number the remote service has authorized

(***************************************************************************)
(* generateQrData: the payload, its JSON text, base64 and the URL.  Text   *)
(* is one token per character here.                                        *)
(***************************************************************************)
\* the printable ASCII characters, from the space (code 32) to '~'; the
\* backslash and the backtick, which no text of the model holds, are
\* spelled out
AsciiPrintable ==
    <<" ", "!", "\"", "#", "$", "%", "&", "'", "(", ")", "*", "+", ",", "-", ".", "/",
      "0", "1", "2", "3", "4", "5", "6", "7", "8", "9", ":", ";", "<", "=", ">", "?",
      "@", "A", "B", "C", "D", "E", "F", "G", "H", "I", "J", "K", "L", "M", "N", "O",
      "P", "Q", "R", "S", "T", "U", "V", "W", "X", "Y", "Z", "[", "backslash", "]", "^", "_",
      "backtick", "a", "b", "c", "d", "e", "f", "g", "h", "i", "j", "k", "l", "m", "n", "o",
      "p", "q", "r", "s", "t", "u", "v", "w", "x", "y", "z", "{", "|", "}", "~">>

\* the base64 alphabet
Base64Alphabet ==
    <<"A", "B", "C", "D", "E", "F", "G", "H", "I", "J", "K", "L", "M", "N", "O", "P",
      "Q", "R", "S", "T", "U", "V", "W", "X", "Y", "Z", "a", "b", "c", "d", "e", "f",
      "g", "h", "i", "j", "k", "l", "m", "n", "o", "p", "q", "r", "s", "t", "u", "v",
      "w", "x", "y", "z", "0", "1", "2", "3", "4", "5", "6", "7", "8", "9", "+", "/">>

\* Buffer.from(text).toString('base64'): one byte per character; every
\* three bytes give four characters; a last group of one or two bytes is
\* filled with zero bits and padded with '='
ToBase64(text) ==
    LET n == Len(text)
        Sextet(v) == Base64Alphabet[v + 1]
        Byte(k) ==
            IF k <= n
            THEN 31 + (CHOOSE i \in 1..Len(AsciiPrintable) : AsciiPrintable[i] = text[k])
            ELSE 0
        Char(g, p) ==
            CASE p = 0 -> Sextet(Byte(3 * g - 2) \div 4)
              [] p = 1 -> Sextet((Byte(3 * g - 2) % 4) * 16 + Byte(3 * g - 1) \div 16)
              [] p = 2 -> IF 3 * g - 1 > n THEN "="
                          ELSE Sextet((Byte(3 * g - 1) % 16) * 4 + Byte(3 * g) \div 64)
              [] p = 3 -> IF 3 * g > n THEN "=" ELSE Sextet(Byte(3 * g) % 64)
    IN  [i \in 1..(4 * ((n + 2) \div 3)) |-> Char(((i - 1) \div 4) + 1, (i - 1) % 4)]

\* a reformatting that puts the day first
FechaFormateada_DayFirst(fecha) ==
    SubSeq(fecha, 7, 8) \o <<"-">> \o SubSeq(fecha, 5, 6) \o <<"-">> \o SubSeq(fecha, 1, 4)

\* YYYYMMDD to YYYY-MM-DD, by substring(0, 4), substring(4, 6) and
\* substring(6, 8), which stop at the end of a shorter string
FechaFormateada(fecha) ==
    LET substring(from, to) ==
            SubSeq(fecha, (IF from < Len(fecha) THEN from ELSE Len(fecha)) + 1,
                   IF to < Len(fecha) THEN to ELSE Len(fecha))
    IN  substring(0, 4) \o <<"-">> \o substring(4, 6) \o <<"-">> \o substring(6, 8)

QR_URL == <<"h", "t", "t", "p", "s", ":", "/", "/", "w", "w", "w", ".", "a", "f", "i", "p",
            ".", "g", "o", "b", ".", "a", "r", "/", "f", "e", "/", "q", "r", "/", "?", "p",
            "=">>

\* JSON.stringify(qrJson)
QrJsonString(params) ==
    LET \* JSON.stringify of a string without characters to escape
        Str(t) == <<"\"">> \o t \o <<"\"">>
        Key(k) == Str(k) \o <<":">>
        \* JSON.stringify(parseInt(t)) for a string of up to 15 digits: the
        \* digits t starts with, without leading zeros, or null for NaN
        ParsedInt(t) ==
            LET k == CHOOSE k \in 0..Len(t) :
                        /\ \A i \in 1..k : IsDigit(t[i])
                        /\ k = Len(t) \/ ~IsDigit(t[k + 1])
                z == CHOOSE z \in 0..k :
                        /\ \A i \in 1..z : t[i] = "0"
                        /\ z + 1 >= k \/ t[z + 1] # "0"
            IN  IF k = 0 THEN <<"n", "u", "l", "l">> ELSE SubSeq(t, z + 1, k)
    IN  <<"{">>
        \o Key(<<"v", "e", "r">>) \o NumToStr(1) \o <<",">>
        \o Key(<<"f", "e", "c", "h", "a">>) \o Str(FechaFormateada(params.fecha)) \o <<",">>
        \o Key(<<"c", "u", "i", "t">>) \o ParsedInt(params.cuit) \o <<",">>
        \o Key(<<"p", "t", "o", "V", "t", "a">>) \o NumToStr(params.ptoVta) \o <<",">>
        \o Key(<<"t", "i", "p", "o", "C", "m", "p">>) \o NumToStr(params.tipoCmp) \o <<",">>
        \o Key(<<"n", "r", "o", "C", "m", "p">>) \o NumToStr(params.nroCmp) \o <<",">>
        \o Key(<<"i", "m", "p", "o", "r", "t", "e">>) \o NumToStr(params.importe) \o <<",">>
        \o Key(<<"m", "o", "n", "e", "d", "a">>) \o Str(params.moneda) \o <<",">>
        \o Key(<<"c", "t", "z">>) \o NumToStr(params.ctz) \o <<",">>
        \o Key(<<"t", "i", "p", "o", "D", "o", "c", "R", "e", "c">>)
            \o NumToStr(params.tipoDocRec) \o <<",">>
        \o Key(<<"n", "r", "o", "D", "o", "c", "R", "e", "c">>)
            \o NumToStr(params.nroDocRec) \o <<",">>
        \o Key(<<"t", "i", "p", "o", "C", "o", "d", "A", "u", "t">>)
            \o Str(<<"E">>) \o <<",">>
        \o Key(<<"c", "o", "d", "A", "u", "t">>) \o ParsedInt(params.codAut)
        \o <<"}">>

QrParams(cuit, ptoVta, tipoCmp, nroCmp, fecha, importe, moneda, ctz, tipoDocRec, nroDocRec, codAut) ==
    [cuit |-> cuit, ptoVta |-> ptoVta, tipoCmp |-> tipoCmp, nroCmp |-> nroCmp,
     fecha |-> fecha, importe |-> importe, moneda |-> moneda, ctz |-> ctz,
     tipoDocRec |-> tipoDocRec, nroDocRec |-> nroDocRec, codAut |-> codAut]

\* a builder that numbers its payloads: it reads how many it has built
GenerateQrData_Numbered(params) ==
    [ver |-> 1 + Len(qrCalls),
     fecha |-> FechaFormateada(params.fecha),
     cuit |-> params.cuit,
     ptoVta |-> params.ptoVta,
     tipoCmp |-> params.tipoCmp,
     nroCmp |-> params.nroCmp,
     importe |-> params.importe,
     moneda |-> params.moneda,
     ctz |-> params.ctz,
     tipoDocRec |-> params.tipoDocRec,
     nroDocRec |-> NumToStr(params.nroDocRec),
     tipoCodAut |-> <<"E">>,
     codAut |-> params.codAut,
     url |-> QR_URL \o ToBase64(QrJsonString([params EXCEPT !.ptoVta = @ + Len(qrCalls)]))]

\* generateQrData(params): the record it returns
GenerateQrData(params) ==
    [ver |-> 1,
     fecha |-> FechaFormateada(params.fecha),
     cuit |-> params.cuit,
     ptoVta |-> params.ptoVta,
     tipoCmp |-> params.tipoCmp,
     nroCmp |-> params.nroCmp,
     importe |-> params.importe,
     moneda |-> params.moneda,
     ctz |-> params.ctz,
     tipoDocRec |-> params.tipoDocRec,
     nroDocRec |-> NumToStr(params.nroDocRec),
     tipoCodAut |-> <<"E">>,
     codAut |-> params.codAut,
     url |-> QR_URL \o ToBase64(QrJsonString(params))]

(***************************************************************************)
(* What the caller and the remote services can supply.                     *)
(***************************************************************************)
CuitEmisor == <<"2", "0", "-", "3">>

Credentials ==
    { [certificado |-> PemCert, clavePrivada |-> PemKey],
      [certificado |-> Base64Encode(PemCert), clavePrivada |-> Base64Encode(PemKey)],
      [certificado |-> <<"hello">>, clavePrivada |-> PemKey],
      [certificado |-> <<>>, clavePrivada |-> PemKey] }

Ticket(token, sign, expirationTime) ==
    [token |-> token, sign |-> sign, expirationTime |-> expirationTime]

\* no ticket, tickets expiring around the time of the call, and a ticket
\* whose expirationTime is no date
TicketArgs ==
    { <<>> }
    \cup { <<Ticket("tokenA", "signA", IsoTime(t))>> : t \in 0..2 }
    \cup { <<Ticket("tokenA", "signA", <<"never">>)>> }

Numeros == { <<>> } \cup { <<n>> : n \in 0..(MaxNro + 1) }

Receptores ==
    { [tipoDocumento |-> ConsumidorFinal, cuitCliente |-> <<"x">>],
      [tipoDocumento |-> 80, cuitCliente |-> <<"2", "-", "7">>],
      [tipoDocumento |-> 80, cuitCliente |-> <<"x">>],
      [tipoDocumento |-> 96, cuitCliente |-> <<"0">>] }

\* the part of the dto that describes the voucher: a factura B for
\* products of 1000 net plus 210 VAT, in pesos, with nothing optional
Contenido ==
    [puntoVenta |-> 1,
     tipoComprobante |-> 6,
     concepto |-> 1,
     importeTotal |-> 1210,
     importeNetoGravado |-> 1000,
     importeIva |-> 210,
     monedaId |-> <<>>,
     cotizacionMoneda |-> <<>>,
     condicionIvaReceptor |-> <<>>,
     iva |-> <<>>,
     fechaServicioDesde |-> <<>>,
     fechaServicioHasta |-> <<>>,
     fechaVencimientoPago |-> <<>>,
     fceVtoPago |-> <<>>]

DtoOf(cred, numero, fecha, receptor, contenido) ==
    [certificado |-> cred.certificado,
     clavePrivada |-> cred.clavePrivada,
     cuitEmisor |-> CuitEmisor,
     numeroComprobante |-> numero,
     fechaComprobante |-> fecha,
     tipoDocumento |-> receptor.tipoDocumento,
     cuitCliente |-> receptor.cuitCliente,
     puntoVenta |-> contenido.puntoVenta,
     tipoComprobante |-> contenido.tipoComprobante,
     concepto |-> contenido.concepto,
     importeTotal |-> contenido.importeTotal,
     importeNetoGravado |-> contenido.importeNetoGravado,
     importeIva |-> contenido.importeIva,
     monedaId |-> contenido.monedaId,
     cotizacionMoneda |-> contenido.cotizacionMoneda,
     condicionIvaReceptor |-> contenido.condicionIvaReceptor,
     iva |-> contenido.iva,
     fechaServicioDesde |-> contenido.fechaServicioDesde,
     fechaServicioHasta |-> contenido.fechaServicioHasta,
     fechaVencimientoPago |-> contenido.fechaVencimientoPago,
     fceVtoPago |-> contenido.fceVtoPago]

Dto(cred, numero, fecha, receptor) == DtoOf(cred, numero, fecha, receptor, Contenido)

\* the calls of the model: every credential and ticket with one voucher,
\* and every voucher with good credentials and no ticket or a live one
InvoiceCalls ==
    { [dto |-> Dto(c, <<0>>, FechaActual(CHOOSE d \in Calendar : d.year = 2025),
                   CHOOSE r \in Receptores : r.tipoDocumento = ConsumidorFinal),
       ticket |-> t] : c \in Credentials, t \in TicketArgs }
    \cup
    { [dto |-> Dto(CHOOSE c \in Credentials : c.certificado = PemCert, n, f, r),
       ticket |-> t] :
        n \in Numeros, f \in Fechas, r \in Receptores,
        t \in { <<>>, <<Ticket("tokenA", "signA", IsoTime(2))>> } }

SoapError(message, body, root, statusCode, status) ==
    [message |-> message, body |-> body, root |-> root,
     statusCode |-> statusCode, status |-> status]

NoRoot == [kind |-> "absent", text |-> <<>>]

\* errors the SOAP layer passes to the FECompUltimoAutorizado callback
LookupErrors ==
    { SoapError(<<"Not", " ", "Found">>, <<>>, NoRoot, <<NotFoundStatus>>, <<>>),
      SoapError(<<"Comprobante", " ", "No", " ", "Encontrado">>, <<>>, NoRoot, <<>>, <<>>),
      SoapError(<<>>, <<>>, NoRoot, <<>>, <<NotFoundStatus>>),
      SoapError(<<"fault">>, <<>>, [kind |-> "text", text |-> <<"Not", " ", "Found">>],
                <<>>, <<>>),
      SoapError(<<"Internal", " ", "Server", " ", "Error">>,
                <<"ref", " ", "1", "4", "0", "4", "5">>, NoRoot, <<500>>, <<>>),
      SoapError(<<"Unauthorized">>, <<>>, NoRoot, <<401>>, <<>>),
      SoapError(<<"ETIMEDOUT">>, <<>>, NoRoot, <<>>, <<>>),
      SoapError(<<"soap:Server", ":", " ", "token", " ", "expirado">>,
                <<"<soap:Fault>">>, [kind |-> "object", text |-> <<>>], <<500>>, <<>>) }

Fault(code, msg) == [Code |-> code, Msg |-> msg]

FaultLists ==
    { <<Fault(NotFoundCode, <<"Sin", " ", "registros">>)>>,
      <<Fault(600, <<"ValidacionDeToken", ":", " ", "No", " ", "valido">>)>>,
      <<Fault(602, <<"Comprobante", " ", "no", " ", "encontrado">>)>>,
      <<Fault(600, <<"ValidacionDeToken">>), Fault(501, <<"Error", " ", "interno">>)>>,
      <<Fault(501, <<"Error", " ", "interno">>), Fault(NotFoundCode, <<"Sin", " ", "registros">>)>> }

NoErrors == [shape |-> "absent", list |-> <<>>]

\* Errors as a direct array, as {Err: [...]} and as {Err: {...}}
ErrorsEncodings(list) ==
    { [shape |-> "flat", list |-> list], [shape |-> "nestedArray", list |-> list] }
    \cup (IF Len(list) = 1 THEN { [shape |-> "nestedSingle", list |-> list] } ELSE {})

LookupData(nro, fch, errors) == [CbteNro |-> nro, CbteFch |-> fch, Errors |-> errors]

\* results the SOAP layer passes to the FECompUltimoAutorizado callback
LookupResults ==
    { [data |-> <<>>] }
    \cup { [data |-> <<LookupData(nro, fch, NoErrors)>>] :
            nro \in { <<>> } \cup { <<n>> : n \in 0..MaxNro },
            fch \in { <<>> } \cup Fechas }
    \cup { [data |-> <<LookupData(<<0>>, <<>>, e)>>] :
            e \in UNION { ErrorsEncodings(l) : l \in FaultLists } }

LookupCallbacks ==
    { [err |-> <<e>>, result |-> [data |-> <<>>]] : e \in LookupErrors }
    \cup { [err |-> <<>>, result |-> r] : r \in LookupResults }

\* messages of the errors soap.createClient reports
ClientErrors ==
    { <<"getaddrinfo", " ", "ENOTFOUND", " ", "wswhomo.afip.gov.ar">>,
      <<"Invalid", " ", "WSDL", " ", "URL", ":", " ", "4", "0", "4", " ", "Not", " ", "Found">> }

\* Observaciones of the detail: as a direct array, as {Obs: [...]}, as
\* {Obs: {...}}, as one object, as one string
NoObservaciones == [shape |-> "absent", list |-> <<>>]

\* the FECAEDetResponse of the answer
Factura(resultado, cae, caeFchVto, cbteDesde, observaciones) ==
    [Resultado |-> resultado, CAE |-> cae, CAEFchVto |-> caeFchVto,
     CbteDesde |-> cbteDesde, Observaciones |-> observaciones]

NoFactura == Factura("", <<>>, <<>>, <<>>, NoObservaciones)

\* what the SOAP layer passes to the FECAESolicitar callback: an error, or
\* a FECAESolicitarResult with its Errors and its FeDetResp, which is
\* absent, holds no FECAEDetResponse ("empty"), or holds it as an array or
\* as one object
SubmitResult(errors, feDetResp, factura) ==
    [err |-> <<>>, Errors |-> errors, FeDetResp |-> feDetResp, factura |-> factura]

CAE == <<"7", "1", "2", "3", "4", "5", "6", "7", "8", "9", "0", "1", "2", "3">>

CAEFchVto == <<"2", "0", "2", "5", "0", "1", "1", "9">>

\* the answers of the runs that vary the ticket, the lookup and the voucher
SubmitCallbacks ==
    { [err |-> <<<<"socket", " ", "hang", " ", "up">>>>, Errors |-> NoErrors,
       FeDetResp |-> "absent", factura |-> NoFactura],
      SubmitResult(NoErrors, "absent", NoFactura),
      SubmitResult(NoErrors, "array", Factura("A", <<CAE>>, <<CAEFchVto>>, <<>>, NoObservaciones)),
      SubmitResult(NoErrors, "array", Factura("P", <<CAE>>, <<CAEFchVto>>, <<>>, NoObservaciones)),
      SubmitResult(NoErrors, "array", Factura("R", <<>>, <<>>, <<>>, NoObservaciones)) }

\* the answers of the runs that vary the answer: every header encoding
\* with a plain detail, every detail encoding with a plain header, an
\* answer without FeDetResp or without FECAEDetResponse, and details that
\* differ in result, authorization code and number
SubmitResponses ==
    LET \* header faults: one with a code, one without, and both
        HeaderLists ==
            { <<Obs(<<10049>>, <<<<"FchServDesde", " ", "no", " ", "corresponde">>>>)>>,
              <<Obs(<<>>, <<<<"Servicio", " ", "no", " ", "disponible">>>>)>>,
              <<Obs(<<10016>>, <<<<"Numero", " ", "fuera", " ", "de", " ", "secuencia">>>>),
                Obs(<<>>, <<<<"Servicio", " ", "no", " ", "disponible">>>>)>> }
        \* detail observations: one with a code, a plain string, one with a
        \* message only, a coded one followed by a string, and one with a
        \* code only
        ObsLists ==
            { <<Obs(<<10217>>, <<<<"Condicion", " ", "IVA", " ", "receptor">>>>)>>,
              <<ObsString(<<"Revisar", " ", "importes">>)>>,
              <<Obs(<<>>, <<<<"Fecha", " ", "fuera", " ", "de", " ", "rango">>>>)>>,
              <<Obs(<<10217>>, <<<<"Condicion", " ", "IVA", " ", "receptor">>>>),
                ObsString(<<"Revisar", " ", "importes">>)>>,
              <<Obs(<<7>>, <<>>)>> }
        \* Observaciones has the encodings of Errors, and one object or
        \* one string on its own
        ObservacionesEncodings(list) ==
            ErrorsEncodings(list)
            \cup (IF Len(list) = 1 /\ list[1].kind = "object"
                  THEN { [shape |-> "object", list |-> list] } ELSE {})
            \cup (IF Len(list) = 1 /\ list[1].kind = "string"
                  THEN { [shape |-> "string", list |-> list] } ELSE {})
        HeaderEncodings == {NoErrors} \cup UNION { ErrorsEncodings(l) : l \in HeaderLists }
        DetailEncodings ==
            {NoObservaciones} \cup UNION { ObservacionesEncodings(l) : l \in ObsLists }
    IN
    { SubmitResult(e, fe, Factura(r, <<CAE>>, <<CAEFchVto>>, <<>>, o)) :
        e \in HeaderEncodings, fe \in {"array", "single"}, r \in {"A", "R"},
        o \in { NoObservaciones,
                [shape |-> "nestedArray",
                 list |-> <<Obs(<<10217>>, <<<<"Condicion", " ", "IVA", " ", "receptor">>>>)>>] } }
    \cup
    { SubmitResult(e, "array", Factura(r, <<>>, <<>>, <<>>, o)) :
        e \in { NoErrors,
                [shape |-> "nestedArray",
                 list |-> <<Obs(<<10049>>, <<<<"FchServDesde", " ", "no", " ", "corresponde">>>>)>>] },
        r \in {"A", "P", "R"}, o \in DetailEncodings }
    \cup
    { SubmitResult(e, fe, NoFactura) : e \in HeaderEncodings, fe \in {"absent", "empty"} }
    \cup
    { SubmitResult(NoErrors, "array", Factura(r, c, <<CAEFchVto>>, n, NoObservaciones)) :
        r \in {"A", "P", "R", "", "X"}, c \in {<<>>, <<CAE>>},
        n \in {<<>>} \cup { <<k>> : k \in 1..(MaxNro + 1) } }
    \cup SubmitCallbacks

(***************************************************************************)
(* Endpoints: the tables of the service, the configuration loaded from the *)
(* process environment, and getAfipUrls.                                   *)
(***************************************************************************)
AFIP_URLS ==
    [production |->
        [wsaa |-> "https://wsaa.afip.gov.ar/ws/services/LoginCms?WSDL",
         wsfe |-> "https://servicios1.afip.gov.ar/wsfev1/service.asmx?WSDL",
         padron |-> "https://aws.afip.gov.ar/sr-padron/webservices/personaServiceA5?WSDL",
         ventanilla |-> "https://infraestructura.afip.gob.ar/ve-ws/services/veconsumer?wsdl",
         wscdc |-> "https://servicios1.arca.gov.ar/WSCDC/service.asmx?WSDL"],
     homologacion |->
        [wsaa |-> "https://wsaahomo.afip.gov.ar/ws/services/LoginCms?WSDL",
         wsfe |-> "https://wswhomo.afip.gov.ar/wsfev1/service.asmx?WSDL",
         padron |-> "https://awshomo.afip.gov.ar/sr-padron/webservices/personaServiceA5?WSDL",
         ventanilla |-> "https://stable-middleware-tecno-ext.afip.gob.ar/ve-ws/services/veconsumer?wsdl",
         wscdc |-> "https://wswhomo.arca.gov.ar/WSCDC/service.asmx?WSDL"]]

\* the table of the configuration file
ConfigUrls ==
    [production |->
        [wsaa |-> "https://wsaa.afip.gov.ar/ws/services/LoginCms?WSDL",
         wsfe |-> "https://servicios1.afip.gov.ar/wsfev1/service.asmx?WSDL",
         padron |-> "https://aws.afip.gov.ar/sr-padron/webservices/personaServiceA5?WSDL"],
     homologacion |->
        [wsaa |-> "https://wsaahomo.afip.gov.ar/ws/services/LoginCms?WSDL",
         wsfe |-> "https://wswhomo.afip.gov.ar/wsfev1/service.asmx?WSDL",
         padron |-> "https://awshomo.afip.gov.ar/sr-padron/webservices/personaServiceA5?WSDL"]]

\* the variables the configuration reads; <<>> is a variable not set
ProcessEnvs ==
    [AFIP_ENVIRONMENT : { <<>>, <<"production">>, <<"homologacion">> },
     AFIP_WSAA_URL : { <<>>, <<"https://proxy.example/wsaa?WSDL">> },
     AFIP_WSFE_URL : { <<>>, <<"https://proxy.example/wsfe?WSDL">> },
     AFIP_PADRON_URL : { <<>>, <<"https://proxy.example/padron?WSDL">> }]

DefaultProcessEnv ==
    [AFIP_ENVIRONMENT |-> <<>>, AFIP_WSAA_URL |-> <<>>,
     AFIP_WSFE_URL |-> <<>>, AFIP_PADRON_URL |-> <<>>]

\* a || b on an optional string
OrElse(value, default) == IF value # <<>> /\ value[1] # "" THEN value[1] ELSE default

\* the afip section the configuration factory returns; it has no
\* ventanillaUrl and no wscdcUrl
EnvConfig(env) ==
    LET isProduction == env.AFIP_ENVIRONMENT = <<"production">>
        afipEnv == IF isProduction THEN ConfigUrls.production ELSE ConfigUrls.homologacion
    IN  [wsaaUrl |-> <<OrElse(env.AFIP_WSAA_URL, afipEnv.wsaa)>>,
         wsfeUrl |-> <<OrElse(env.AFIP_WSFE_URL, afipEnv.wsfe)>>,
         padronUrl |-> <<OrElse(env.AFIP_PADRON_URL, afipEnv.padron)>>,
         ventanillaUrl |-> <<>>,
         wscdcUrl |-> <<>>]

\* getAfipUrls(homologacion) over the loaded configuration
getAfipUrls(config, homologacion) ==
    LET defaultUrls == IF homologacion THEN AFIP_URLS.homologacion ELSE AFIP_URLS.production
    IN  [wsaa |-> OrElse(config.wsaaUrl, defaultUrls.wsaa),
         wsfe |-> OrElse(config.wsfeUrl, defaultUrls.wsfe),
         padron |-> OrElse(config.padronUrl, defaultUrls.padron),
         ventanilla |-> OrElse(config.ventanillaUrl, defaultUrls.ventanilla),
         wscdc |-> OrElse(config.wscdcUrl, defaultUrls.wscdc)]

(***************************************************************************)
(* The run.                                                                *)
(***************************************************************************)
runVars == <<pc, now, today, invoiceData, ticketArg, ticketCheck, authTicket,
             signerRuns, calls, lookupCb, lookupPromise, ultimo, fecaeReq, submitCb,
             outcome>>

\* the state of the signTRA calls and of the endpoint selection
signVars == <<signCalls, tmpDir, disk, unlinkErrors, signInput, signReturn>>
urlVars == <<processEnv, contacted>>
qrVars == <<qrCalls>>
pairVars == <<runs, remoteUltimo>>

\* what the promise of createInvoice settled to: the InvoiceResponseDto it
\* resolved with, or the exception it rejected with (its class, its
\* message and the observaciones attached to it).  Every throw and reject
\* that reaches the caller constructs a BadRequestException: the ones of
\* the callbacks, and the catch of createInvoice around everything else.
\* An absent array is <<>>.
Settled(kind, message, excepcion, respuesta) ==
    [kind |-> kind,
     exception |-> IF kind = "rejected" THEN "BadRequestException" ELSE "",
     message |-> message, excepcionObservaciones |-> excepcion,
     resultado |-> respuesta.resultado,
     cae |-> respuesta.cae,
     caeFchVto |-> respuesta.caeFchVto,
     numeroComprobante |-> respuesta.numeroComprobante,
     fechaComprobante |-> respuesta.fechaComprobante,
     nroDocReceptor |-> respuesta.nroDocReceptor,
     observaciones |-> respuesta.observaciones,
     observacionesDetalladas |-> respuesta.observacionesDetalladas,
     qrData |-> respuesta.qrData]

NoRespuesta ==
    [resultado |-> "", cae |-> <<>>, caeFchVto |-> <<>>, numeroComprobante |-> <<>>,
     fechaComprobante |-> <<>>, nroDocReceptor |-> <<>>, observaciones |-> <<>>,
     observacionesDetalladas |-> <<>>, qrData |-> <<>>]

Pending == Settled("pending", <<>>, <<>>, NoRespuesta)
Fulfilled(respuesta) == Settled("resolved", <<>>, <<>>, respuesta)
Failed(message) == Settled("rejected", message, <<>>, NoRespuesta)

\* the outer catch of createInvoice
CreateInvoiceCatch(message) ==
    Failed(<<"Error al crear factura electronica: ">> \o message)

\* the catch of getTicket
GetTicketCatch(message) == <<"Error al obtener ticket de AFIP: ">> \o message

\* a request sent to a remote service: the login carries the service name
\* of the TRA, the invoicing requests carry the token and sign of a ticket
Remote(op, service, token, sign) ==
    [op |-> op, service |-> service, token |-> token, sign |-> sign]

\* the service createInvoice asks a ticket for
TicketService == "wsfe"

\* the test of a run that logs in whatever ticket it was given
NeedsNewTicket_Always(ticket, t) == TRUE

\* !authTicket || !this.validateTicket(authTicket)
NeedsNewTicket(ticket, t) == ticket = <<>> \/ ~validateTicket(ticket[1], t)

\* the clock may have moved on when a remote answer arrives
Elapsed == { dt \in 0..1 : now + dt <= MaxTime }

RunIdle ==
    /\ pc = "idle"
    /\ now = 1
    /\ invoiceData = <<>>
    /\ ticketArg = <<>>
    /\ ticketCheck = <<>>
    /\ authTicket = <<>>
    /\ signerRuns = 0
    /\ calls = <<>>
    /\ lookupCb = <<>>
    /\ lookupPromise = <<>>
    /\ ultimo = <<>>
    /\ fecaeReq = <<>>
    /\ submitCb = <<>>
    /\ outcome = Pending

RunInit == RunIdle /\ today \in Todays

\* createInvoice(invoiceData, ticket) up to its first await
CreateInvoice(call) ==
    /\ pc = "idle"
    /\ invoiceData' = <<call.dto>>
    /\ ticketArg' = call.ticket
    /\ IF \/ CredentialsMissing(call.dto.certificado, call.dto.clavePrivada)
          \/ call.dto.cuitEmisor = <<>>
       THEN /\ outcome' = CreateInvoiceCatch(
                    <<"certificado, clavePrivada y cuitEmisor son requeridos">>)
            /\ pc' = "done"
            /\ UNCHANGED <<ticketCheck, authTicket>>
       ELSE /\ authTicket' = call.ticket
            /\ ticketCheck' =
                   IF call.ticket = <<>> THEN <<>>
                   ELSE <<[at |-> now, valid |-> validateTicket(call.ticket[1], now)]>>
            /\ pc' = IF NeedsNewTicket(call.ticket, now) THEN "getTicket"
                     ELSE "lookupClient"
            /\ UNCHANGED outcome
    /\ UNCHANGED <<now, today, signerRuns, calls, lookupCb, lookupPromise, ultimo, fecaeReq>>
    /\ UNCHANGED <<submitCb, signVars, urlVars, qrVars, pairVars>>

\* what one call of signTRA can end in
SignOutcomes(certificado, clavePrivada) ==
    { [result |-> SignTRA(certificado, clavePrivada, env).result,
       signer |-> SignTRA(certificado, clavePrivada, env).signer] : env \in SignEnvs }

SignMessage(r) ==
    CASE r = "missing" -> <<"Certificado y clave privada son requeridos">>
      [] r = "mkdirFailed" -> <<"EACCES">>
      [] r = "invalid" -> <<"Error al firmar el TRA: ", "formato PEM con headers">>
      [] r = "stagingFailed" -> <<"Error al firmar el TRA: ", "EACCES">>
      [] OTHER -> <<"Error al firmar el TRA: ", "OpenSSL error: ">>

\* getTicket('wsfe', ...): createTRA and signTRA, then soap.createClient
GetTicketSign ==
    /\ pc = "getTicket"
    /\ \E r \in SignOutcomes(invoiceData[1].certificado, invoiceData[1].clavePrivada) :
        /\ signerRuns' = IF r.signer THEN signerRuns + 1 ELSE signerRuns
        /\ IF r.result = "signed"
           THEN pc' = "wsaaClient" /\ UNCHANGED outcome
           ELSE /\ pc' = "done"
                /\ outcome' = CreateInvoiceCatch(GetTicketCatch(SignMessage(r.result)))
    /\ UNCHANGED <<now, today, invoiceData, ticketArg, ticketCheck, authTicket, calls,
                   lookupCb, lookupPromise, ultimo, fecaeReq>>
    /\ UNCHANGED <<submitCb, signVars, urlVars, qrVars, pairVars>>

\* callWSAA: the soap.createClient callback
WsaaCreateClient ==
    /\ pc = "wsaaClient"
    /\ \E r \in {"err", "noLoginCms", "ok"} :
        IF r = "ok"
        THEN /\ calls' = Append(calls, Remote("login", TicketService, "", ""))
             /\ pc' = "wsaaLogin"
             /\ UNCHANGED outcome
        ELSE /\ pc' = "done"
             /\ outcome' = CreateInvoiceCatch(GetTicketCatch(
                    IF r = "err" THEN <<"Error al crear cliente SOAP: ">>
                    ELSE <<"El cliente SOAP no tiene el metodo loginCms">>))
             /\ UNCHANGED calls
    /\ UNCHANGED <<now, today, invoiceData, ticketArg, ticketCheck, authTicket,
                   signerRuns, lookupCb, lookupPromise, ultimo, fecaeReq>>
    /\ UNCHANGED <<submitCb, signVars, urlVars, qrVars, pairVars>>

\* callWSAA: the loginCms callback and parseTicketResponse
WsaaLoginCms ==
    /\ pc = "wsaaLogin"
    /\ \E dt \in Elapsed, r \in {"err", "parseError", "ok"} :
        /\ now' = now + dt
        /\ IF r = "ok"
           THEN /\ authTicket' = <<Ticket("tokenB", "signB", IsoTime(now' + TicketLife))>>
                /\ pc' = "lookupClient"
                /\ UNCHANGED outcome
           ELSE /\ pc' = "done"
                /\ outcome' = CreateInvoiceCatch(GetTicketCatch(
                       IF r = "err" THEN <<"Error al llamar WSAA: ">>
                       ELSE <<"Error al parsear respuesta: ">>))
                /\ UNCHANGED authTicket
    /\ UNCHANGED <<today, invoiceData, ticketArg, ticketCheck, signerRuns, calls,
                   lookupCb, lookupPromise, ultimo, fecaeReq>>
    /\ UNCHANGED <<submitCb, signVars, urlVars, qrVars, pairVars>>

\* getUltimoAutorizado: the soap.createClient callback, which on success
\* sends FECompUltimoAutorizado with the token and sign of the ticket
LookupCreateClient ==
    /\ pc = "lookupClient"
    /\ \/ \E m \in ClientErrors :
            /\ lookupPromise' = <<OnLookupClientError(m)>>
            /\ pc' = "lookupSettled"
            /\ UNCHANGED calls
       \/ /\ calls' = Append(calls, Remote("lookup", "", authTicket[1].token, authTicket[1].sign))
          /\ pc' = "lookupCall"
          /\ UNCHANGED lookupPromise
    /\ UNCHANGED <<now, today, invoiceData, ticketArg, ticketCheck, authTicket,
                   signerRuns, lookupCb, ultimo, fecaeReq, outcome>>
    /\ UNCHANGED <<submitCb, signVars, urlVars, qrVars, pairVars>>

\* getUltimoAutorizado: the FECompUltimoAutorizado callback; when it throws
\* the promise is left unsettled
LookupCallback(cb) ==
    /\ pc = "lookupCall"
    /\ \E dt \in Elapsed :
        /\ now' = now + dt
        /\ lookupCb' = <<cb>>
        /\ LET settled == OnLookupCallback(cb, today)
           IN  IF settled.kind = "threw"
               THEN pc' = "hung" /\ UNCHANGED lookupPromise
               ELSE pc' = "lookupSettled" /\ lookupPromise' = <<settled>>
    /\ UNCHANGED <<today, invoiceData, ticketArg, ticketCheck, authTicket, signerRuns,
                   calls, ultimo, fecaeReq, outcome>>
    /\ UNCHANGED <<submitCb, signVars, urlVars, qrVars, pairVars>>

\* the FECAEDetRequest built from the reconciled values
\* (the amounts not taxed, exempt and of other taxes, the discount, the
\* associated vouchers and the CBU are left out); an optional property is
\* <<>> when detalle does not get it
Detalle(dto, numeroAUsar, fechaCbte, docNro) ==
    LET claseComprobante == getClaseComprobante(dto.tipoComprobante)
    IN  [Concepto |-> dto.concepto,
         DocTipo |-> dto.tipoDocumento,
         DocNro |-> docNro,
         CbteDesde |-> numeroAUsar,
         CbteHasta |-> numeroAUsar,
         CbteFch |-> fechaCbte,
         ImpTotal |-> dto.importeTotal,
         ImpNeto |-> dto.importeNetoGravado,
         ImpIVA |-> dto.importeIva,
         MonId |-> OrText(dto.monedaId, <<"P", "E", "S">>),
         MonCotiz |-> OrNumber(dto.cotizacionMoneda, 1),
         IvaCond |-> <<CondicionIva(dto, claseComprobante)>>,
         Iva |-> Iva(dto, claseComprobante),
         FchServDesde |-> FchServDesde(dto, fechaCbte),
         FchServHasta |-> FchServHasta(dto, fechaCbte),
         FchVtoPago |-> FchVtoPago(dto, fechaCbte)]

\* a request authenticated with a ticket other than the one of the lookup
FecaeReq_OtherTicket(ticket, cuit, detalle) ==
    [Auth |-> [Token |-> "tokenC", Sign |-> "signC", Cuit |-> cuit],
     FECAEDetRequest |-> detalle]

\* fecaeReq: the Auth of the ticket and the detail
FecaeReq(ticket, cuit, detalle) ==
    [Auth |-> [Token |-> ticket.token, Sign |-> ticket.sign, Cuit |-> cuit],
     FECAEDetRequest |-> detalle]

\* createInvoice after the awaited lookup: the catch, the reconciliation,
\* the request, then soap.createClient for the submission
BuildRequest ==
    /\ pc = "lookupSettled"
    /\ LET dto == invoiceData[1]
           caught == CatchLookup(lookupPromise[1], today)
           proximoNumero == ProximoNumero(caught)
           numeroAUsar == NumeroAUsar(dto.numeroComprobante, proximoNumero)
           fechaCbte == FechaCbte(dto.fechaComprobante, caught.CbteFch)
           docNro == DocNro(dto.tipoDocumento, dto.cuitCliente)
       IN  IF caught.kind = "rejected"
           THEN /\ outcome' = CreateInvoiceCatch(caught.message)
                /\ pc' = "done"
                /\ UNCHANGED <<ultimo, fecaeReq>>
           ELSE /\ ultimo' = <<[CbteNro |-> caught.CbteNro, CbteFch |-> caught.CbteFch]>>
                /\ IF docNro = <<>>
                   THEN /\ outcome' = CreateInvoiceCatch(<<"DocNro invalido para DocTipo">>)
                        /\ pc' = "done"
                        /\ UNCHANGED fecaeReq
                   ELSE /\ fecaeReq' = <<FecaeReq(authTicket[1], RemoveDashes(dto.cuitEmisor),
                                                 Detalle(dto, numeroAUsar, fechaCbte, docNro[1]))>>
                        /\ pc' = "submitClient"
                        /\ UNCHANGED outcome
    /\ UNCHANGED <<now, today, invoiceData, ticketArg, ticketCheck, authTicket,
                   signerRuns, calls, lookupCb, lookupPromise>>
    /\ UNCHANGED <<submitCb, signVars, urlVars, qrVars, pairVars>>

\* the soap.createClient callback of the submission, which on success sends
\* FECAESolicitar
SubmitCreateClient ==
    /\ pc = "submitClient"
    /\ \E dt \in Elapsed :
        /\ now' = now + dt
        /\ \/ \E m \in ClientErrors :
                /\ outcome' = Failed(<<"Error al crear cliente SOAP WSFE: ">> \o m)
                /\ pc' = "done"
                /\ UNCHANGED calls
           \/ /\ calls' = Append(calls, Remote("submit", "", fecaeReq[1].Auth.Token,
                                                fecaeReq[1].Auth.Sign))
              /\ pc' = "submitCall"
              /\ UNCHANGED outcome
    /\ UNCHANGED <<today, invoiceData, ticketArg, ticketCheck, authTicket, signerRuns,
                   lookupCb, lookupPromise, ultimo, fecaeReq>>
    /\ UNCHANGED <<submitCb, signVars, urlVars, qrVars, pairVars>>

\* the test that decides whether the result carries qrData, in a callback
\* that asks for an authorization code only
HasQr_AnyResult(factura, resultado) == factura.CAE # <<>> /\ factura.CAE[1] # <<>>

\* factura.CAE && resultado === 'A'
HasQr(factura, resultado) ==
    factura.CAE # <<>> /\ factura.CAE[1] # <<>> /\ resultado = "A"

\* the InvoiceResponseDto the callback resolves with; req is the request of
\* the run, whose detail holds numeroAUsar, fechaCbte, docNro, monId and
\* monCotiz
InvoiceResponse(cb, dto, req, pushed) ==
    LET factura == cb.factura
        detalle == req.FECAEDetRequest
        resultado == factura.Resultado
        numero == OrNumber(factura.CbteDesde, detalle.CbteDesde)
    IN  [resultado |-> resultado,
         cae |-> OrText(factura.CAE, <<>>),
         caeFchVto |-> OrText(factura.CAEFchVto, <<>>),
         numeroComprobante |-> <<numero>>,
         fechaComprobante |-> detalle.CbteFch,
         nroDocReceptor |-> NumToStr(detalle.DocNro),
         observaciones |-> Observaciones(pushed),
         observacionesDetalladas |-> ObservacionesDetalladas(pushed),
         qrData |->
            IF HasQr(factura, resultado)
            THEN <<GenerateQrData(QrParams(req.Auth.Cuit, dto.puntoVenta, dto.tipoComprobante,
                                           numero, detalle.CbteFch, dto.importeTotal,
                                           detalle.MonId, detalle.MonCotiz, dto.tipoDocumento,
                                           detalle.DocNro, factura.CAE[1]))>>
            ELSE <<>>]

\* the FECAESolicitar callback
OnSubmitCallback(cb, dto, req) ==
    IF cb.err # <<>> THEN Failed(<<"Error al crear factura: ">> \o cb.err[1])
    ELSE IF cb.FeDetResp = "absent"
         THEN Failed(<<"No se recibio respuesta valida de AFIP (sin FeDetResp)">>)
    ELSE IF cb.FeDetResp = "empty"
         THEN Failed(<<"No se recibio respuesta valida de AFIP (sin FECAEDetResponse)">>)
    ELSE LET pushed == HeaderPushed(cb.Errors) \o DetailPushed(cb.factura.Observaciones)
         IN  IF cb.factura.Resultado = "R"
             THEN Settled("rejected", RejectionMessage(pushed),
                          ExceptionObservaciones(pushed), NoRespuesta)
             ELSE Fulfilled(InvoiceResponse(cb, dto, req, pushed))

\* the FECAESolicitar callback runs; the remote service answers about the
\* voucher it was asked for: a CbteDesde in the answer is the one of the
\* request
SubmitCallback(cb) ==
    /\ pc = "submitCall"
    /\ cb.factura.CbteDesde # <<>> =>
            cb.factura.CbteDesde[1] = fecaeReq[1].FECAEDetRequest.CbteDesde
    /\ submitCb' = <<cb>>
    /\ outcome' = OnSubmitCallback(cb, invoiceData[1], fecaeReq[1])
    /\ pc' = "done"
    /\ UNCHANGED <<now, today, invoiceData, ticketArg, ticketCheck, authTicket,
                   signerRuns, calls, lookupCb, lookupPromise, ultimo, fecaeReq>>
    /\ UNCHANGED <<signVars, urlVars, qrVars, pairVars>>

RunNext ==
    \/ \E call \in InvoiceCalls : CreateInvoice(call)
    \/ GetTicketSign
    \/ WsaaCreateClient
    \/ WsaaLoginCms
    \/ LookupCreateClient
    \/ \E cb \in LookupCallbacks : LookupCallback(cb)
    \/ BuildRequest
    \/ SubmitCreateClient
    \/ \E cb \in SubmitCallbacks : SubmitCallback(cb)

(***************************************************************************)
(* Runs that vary the voucher and the answer to its submission: the caller *)
(* brings a live ticket, the lookup answers, and the request is built from *)
(* every kind of voucher and met by every kind of answer.                  *)
(***************************************************************************)
\* the calls: vouchers of every class, with and without a receiver VAT
\* condition (allowed for the class or not); with and without VAT and an
\* explicit breakdown; of every concept, with and without service dates
\* and the payment date of a credit invoice; in pesos and in dollars; and
\* the plain voucher for the receivers of the other runs, a final consumer
\* with a document number, a number made of zeros and a number followed
\* by text
ContentCalls ==
    LET Contenidos ==
            { [Contenido EXCEPT !.tipoComprobante = t, !.condicionIvaReceptor = c] :
                t \in {1, 6, 11, 51, 201, 206, 211, 99}, c \in {<<>>, <<1>>, <<5>>, <<6>>} }
            \cup
            { [Contenido EXCEPT !.tipoComprobante = t, !.importeIva = i, !.iva = a] :
                t \in {1, 6, 11, 51, 201, 206, 211}, i \in {0, 210},
                a \in { <<>>, <<[Id |-> 4, BaseImp |-> 400, Importe |-> 42],
                                [Id |-> IVA_21, BaseImp |-> 800, Importe |-> 168]>> } }
            \cup
            { [Contenido EXCEPT !.tipoComprobante = t, !.concepto = k,
                                !.fechaServicioDesde = d, !.fechaServicioHasta = d,
                                !.fechaVencimientoPago = v, !.fceVtoPago = f] :
                t \in {6, 201}, k \in {1, 2, 3},
                d \in {<<>>, <<FechaActual([year |-> 2024, month0 |-> 10, day |-> 26])>>},
                v \in {<<>>, <<FechaActual([year |-> 2025, month0 |-> 0, day |-> 9])>>},
                f \in {<<>>, <<FechaActual([year |-> 2024, month0 |-> 11, day |-> 5])>>} }
            \cup
            { [Contenido EXCEPT !.monedaId = m, !.cotizacionMoneda = z] :
                m \in {<<>>, <<<<"D", "O", "L">>>>}, z \in {<<>>, <<0>>, <<1450>>} }
        ReceptoresContenido ==
            Receptores \cup
            { [tipoDocumento |-> ConsumidorFinal, cuitCliente |-> <<"2", "-", "7">>],
              [tipoDocumento |-> 96, cuitCliente |-> <<"0", "-", "0">>],
              [tipoDocumento |-> 80, cuitCliente |-> <<"2", "7", "x">>] }
        ContentDto(receptor, contenido) ==
            DtoOf(CHOOSE c \in Credentials : c.certificado = PemCert, <<>>,
                  FechaActual([year |-> 2024, month0 |-> 11, day |-> 5]), receptor, contenido)
        ticket == <<Ticket("tokenA", "signA", IsoTime(MaxTime + 1))>>
    IN  { [dto |-> ContentDto(r, c), ticket |-> ticket] :
            r \in {CHOOSE r \in Receptores : r.tipoDocumento = ConsumidorFinal},
            c \in Contenidos }
        \cup
        { [dto |-> ContentDto(r, Contenido), ticket |-> ticket] : r \in ReceptoresContenido }

\* the lookup answers with no voucher yet, or with a last voucher dated
\* after the date of the call; every answer to the submission meets the
\* plain voucher, the plain answers meet the others
ContentNext ==
    LET ContentLookups ==
            { [err |-> <<>>, result |-> [data |-> <<LookupData(<<0>>, <<>>, NoErrors)>>]],
              [err |-> <<>>,
               result |-> [data |-> <<LookupData(<<MaxNro>>,
                                                 FechaActual([year |-> 2025, month0 |-> 0, day |-> 9]),
                                                 NoErrors)>>]] }
        ContentResponses ==
            IF /\ invoiceData # <<>>
               /\ [f \in DOMAIN Contenido |-> invoiceData[1][f]] = Contenido
               /\ [tipoDocumento |-> invoiceData[1].tipoDocumento,
                   cuitCliente |-> invoiceData[1].cuitCliente] \in Receptores
            THEN SubmitResponses
            ELSE SubmitCallbacks
    IN  \/ \E call \in ContentCalls : CreateInvoice(call)
        \/ LookupCreateClient
        \/ \E cb \in ContentLookups : LookupCallback(cb)
        \/ BuildRequest
        \/ SubmitCreateClient
        \/ \E cb \in ContentResponses : SubmitCallback(cb)

(***************************************************************************)
(* Calls of signTRA, one after the other, on a disk that keeps what a call *)
(* leaves behind.                                                          *)
(***************************************************************************)
\* values given as certificado or clavePrivada: PEM text, its base64, the
\* base64 of its base64, nothing, text that is no PEM, PEM text cut before
\* its END line, text with the END line first, and text whose END line
\* names something else than its BEGIN line
CredentialValues(pem, other) ==
    { pem,
      Base64Encode(pem),
      Base64Encode(Base64Encode(pem)),
      <<>>,
      <<"hello">>,
      <<pem[1], pem[2], pem[3]>>,
      <<pem[4], pem[5], pem[3], pem[1], pem[2]>>,
      <<pem[1], pem[2], pem[3], pem[4], other[5]>>,
      Base64Encode(<<pem[1], pem[2], pem[3], pem[4], other[5]>>) }

\* one of the two values varies while the other is good
SignInputs ==
    { [certificado |-> c, clavePrivada |-> k] :
        c \in CredentialValues(PemCert, PemKey), k \in {PemKey, Base64Encode(PemKey)} }
    \cup
    { [certificado |-> c, clavePrivada |-> k] :
        c \in {PemCert, Base64Encode(PemCert)}, k \in CredentialValues(PemKey, PemCert) }

NoSignReturn == SignReturn("", "none", {}, {}, FALSE, "none")

SignIdle ==
    /\ signCalls = 0
    /\ disk = {}
    /\ unlinkErrors = {}
    /\ signInput = <<>>
    /\ signReturn = NoSignReturn

UrlsIdle ==
    /\ processEnv = DefaultProcessEnv
    /\ contacted = <<>>


\* a call of signTRA from its entry to its return or throw
SignTRACall(input, env) ==
    /\ signCalls < MaxSigns
    /\ env.tmpDir = tmpDir
    /\ LET r == SignTRA(input.certificado, input.clavePrivada, env)
           call == signCalls + 1
       IN  /\ signCalls' = call
           /\ signInput' = <<input>>
           /\ signReturn' = r
           /\ tmpDir' = (tmpDir \/ r.result \notin {"missing", "mkdirFailed"})
           /\ disk' = disk \cup { [kind |-> k, call |-> call] : k \in r.left }
           /\ unlinkErrors' =
                  unlinkErrors \cup (IF r.unlinkError = "none" THEN {}
                                     ELSE { [kind |-> r.unlinkError, call |-> call] })
    /\ UNCHANGED <<runVars, urlVars, qrVars, pairVars>>

SignInit ==
    /\ RunIdle /\ today = CHOOSE d \in Todays : TRUE
    /\ SignIdle /\ tmpDir \in BOOLEAN
    /\ UrlsIdle /\ qrCalls = <<>>
    /\ runs = <<>> /\ remoteUltimo = 0

SignNext == \E input \in SignInputs, env \in SignEnvs : SignTRACall(input, env)

(***************************************************************************)
(* Endpoint selection: the operations that take the homologacion flag.     *)
(***************************************************************************)
\* the services each operation contacts
OperationServices ==
    [getTicket |-> {"wsaa"},
     getUltimoAutorizado |-> {"wsfe"},
     createInvoice |-> {"wsaa", "wsfe"},
     consultarContribuyente |-> {"wsaa", "padron"},
     consultarComunicaciones |-> {"ventanilla"},
     constatarComprobante |-> {"wscdc"}]

\* an operation called with the flag absent, true or false
CallOperation(op, flag) ==
    /\ contacted = <<>>
    /\ LET homologacion == IF flag = <<>> THEN TRUE ELSE flag[1]
           urls == getAfipUrls(EnvConfig(processEnv), homologacion)
       IN  contacted' = <<[operation |-> op,
                           homologacion |-> homologacion,
                           endpoints |-> [svc \in OperationServices[op] |-> urls[svc]]]>>
    /\ UNCHANGED processEnv
    /\ UNCHANGED <<runVars, signVars, qrVars, pairVars>>

UrlsInit ==
    /\ RunIdle /\ today = CHOOSE d \in Todays : TRUE
    /\ SignIdle /\ tmpDir = TRUE
    /\ processEnv \in ProcessEnvs
    /\ contacted = <<>>
    /\ qrCalls = <<>>
    /\ runs = <<>> /\ remoteUltimo = 0

UrlsNext ==
    \E op \in DOMAIN OperationServices, flag \in {<<>>, <<TRUE>>, <<FALSE>>} :
        CallOperation(op, flag)

(***************************************************************************)
(* Calls of generateQrData, at any time and between other operations.      *)
(***************************************************************************)
\* a factura B to a receiver with DNI 0, the same of another day, a
\* voucher in dollars to a receiver with a number, and one whose
\* authorization code starts with a zero
QrInputs ==
    { QrParams(<<"2", "0", "1", "2", "3", "4", "5", "6", "7", "8", "9">>, 1, 6, 1,
               <<"2", "0", "2", "5", "1", "2", "0", "5">>, 1210, <<"P", "E", "S">>, 1, 96, 0,
               CAE),
      QrParams(<<"2", "0", "1", "2", "3", "4", "5", "6", "7", "8", "9">>, 1, 6, 1,
               <<"2", "0", "2", "4", "0", "2", "2", "9">>, 1210, <<"P", "E", "S">>, 1, 96, 0,
               CAE),
      QrParams(<<"3", "0", "7", "1", "2", "3", "4", "5", "6", "7", "8">>, 12, 1, 4503,
               <<"2", "0", "2", "5", "0", "1", "0", "9">>, 98000, <<"D", "O", "L">>, 1450, 80,
               27, CAE),
      QrParams(<<"2", "0", "1", "2", "3", "4", "5", "6", "7", "8", "9">>, 1, 6, 2,
               <<"2", "0", "2", "5", "1", "2", "0", "5">>, 1210, <<"P", "E", "S">>, 1, 96, 0,
               <<"0", "7", "1", "2", "3", "4", "5", "6", "7", "8", "9", "0", "1", "2">>) }

\* a call of generateQrData
GenerateQrDataCall(params) ==
    /\ Len(qrCalls) < MaxQrCalls
    /\ qrCalls' = Append(qrCalls, [params |-> params, at |-> now,
                                   result |-> GenerateQrData(params)])
    /\ UNCHANGED <<runVars, signVars, urlVars, pairVars>>

\* time passes
Tick ==
    /\ now < MaxTime
    /\ now' = now + 1
    /\ UNCHANGED <<pc, today, invoiceData, ticketArg, ticketCheck, authTicket, signerRuns,
                   calls, lookupCb, lookupPromise, ultimo, fecaeReq, submitCb, outcome>>
    /\ UNCHANGED <<signVars, urlVars, qrVars, pairVars>>

QrInit ==
    /\ RunIdle /\ today = CHOOSE d \in Todays : TRUE
    /\ SignIdle /\ tmpDir = TRUE
    /\ UrlsIdle /\ qrCalls = <<>>
    /\ runs = <<>> /\ remoteUltimo = 0

\* the other operations are the ones that pick their endpoints
QrNext ==
    \/ \E params \in QrInputs : GenerateQrDataCall(params)
    \/ Tick
    \/ UrlsNext

(***************************************************************************)
(* Two createInvoice runs side by side for one issuer, sales point and     *)
(* voucher type.  The service keeps nothing between or across runs: each   *)
(* run asks the remote service for the last authorized number and submits  *)
(* the next one.  The callbacks of the two runs interleave freely; the     *)
(* code that follows an awaited promise runs with the callback that        *)
(* settled it.  The remote service authorizes a voucher only when its      *)
(* number follows the last one it has authorized.                          *)
(***************************************************************************)
\* createInvoice(invoiceData, ticket) with a valid ticket, up to the
\* FECompUltimoAutorizado request
PairCreateInvoice(r, numero) ==
    /\ runs[r].pc = "idle"
    /\ runs' = [runs EXCEPT ![r] = [@ EXCEPT !.pc = "lookupCall",
                                             !.numeroComprobante = numero]]
    /\ UNCHANGED <<remoteUltimo, runVars, signVars, urlVars, qrVars>>

\* the FECompUltimoAutorizado callback of a run and the code after the
\* awaited lookup: the reconciliation of the number
PairLookupCallback(r) ==
    /\ runs[r].pc = "lookupCall"
    /\ LET cb == [err |-> <<>>,
                  result |-> [data |-> <<LookupData(<<remoteUltimo>>, <<>>, NoErrors)>>]]
           caught == CatchLookup(OnLookupCallback(cb, today), today)
           numeroAUsar == NumeroAUsar(runs[r].numeroComprobante, ProximoNumero(caught))
       IN  runs' = [runs EXCEPT ![r] = [@ EXCEPT !.pc = "submitClient",
                                                !.ultimo = <<caught.CbteNro>>,
                                                !.CbteDesde = <<numeroAUsar>>]]
    /\ UNCHANGED <<remoteUltimo, runVars, signVars, urlVars, qrVars>>

\* the soap.createClient callback of the submission: FECAESolicitar goes out
PairSubmitCreateClient(r) ==
    /\ runs[r].pc = "submitClient"
    /\ runs' = [runs EXCEPT ![r] = [@ EXCEPT !.pc = "submitCall"]]
    /\ UNCHANGED <<remoteUltimo, runVars, signVars, urlVars, qrVars>>

\* the remote service answers the submission, and the FECAESolicitar
\* callback settles the run
PairSubmitCallback(r) ==
    /\ runs[r].pc = "submitCall"
    /\ LET approved == runs[r].CbteDesde[1] = remoteUltimo + 1
       IN  /\ remoteUltimo' = IF approved THEN remoteUltimo + 1 ELSE remoteUltimo
           /\ runs' = [runs EXCEPT ![r] = [@ EXCEPT !.pc = "done",
                                !.resultado = IF approved THEN "A" ELSE "R"]]
    /\ UNCHANGED <<runVars, signVars, urlVars, qrVars>>

PairInit ==
    /\ RunIdle /\ today = CHOOSE d \in Todays : TRUE
    /\ SignIdle /\ tmpDir = TRUE
    /\ UrlsIdle /\ qrCalls = <<>>
    /\ runs = [r \in 1..2 |-> [pc |-> "idle", numeroComprobante |-> <<>>, ultimo |-> <<>>,
                               CbteDesde |-> <<>>, resultado |-> ""]]
    /\ remoteUltimo \in 0..MaxNro

PairNext ==
    \E r \in 1..2 :
        \/ \E numero \in Numeros : PairCreateInvoice(r, numero)
        \/ PairLookupCallback(r)
        \/ PairSubmitCreateClient(r)
        \/ PairSubmitCallback(r)

(***************************************************************************)
(* The specifications.                                                     *)
(***************************************************************************)
vars == <<runVars, signVars, urlVars, qrVars, pairVars>>

Init ==
    /\ RunInit /\ SignIdle /\ tmpDir = TRUE /\ UrlsIdle /\ qrCalls = <<>>
    /\ runs = <<>> /\ remoteUltimo = 0

Next == RunNext

Spec == Init /\ [][Next]_vars

SpecSign == SignInit /\ [][SignNext]_vars

SpecContent == Init /\ [][ContentNext]_vars

SpecQr == QrInit /\ [][QrNext]_vars

SpecUrls == UrlsInit /\ [][UrlsNext]_vars

SpecPair == PairInit /\ [][PairNext]_vars

\* the run under the scheduling of the event loop: once the lookup request
\* is out, the SOAP layer eventually invokes its callback
SpecLive == Spec /\ WF_vars(\E cb \in LookupCallbacks : LookupCallback(cb))

(***************************************************************************)
(* Properties of the run.                                                  *)
(***************************************************************************)
Submitted == fecaeReq # <<>>

SubmittedDetail == fecaeReq[1].FECAEDetRequest

\* C1: whenever the lookup of a run yielded last number N, the voucher
\* detail of the run has CbteDesde = CbteHasta = N + 1 whatever number the
\* caller supplied, and the only thing that stops a run after the lookup
\* has yielded is the receiver-document validation, never the number.
C1_NumberIsNextAfterLast ==
    /\ Submitted =>
        /\ ultimo # <<>>
        /\ SubmittedDetail.CbteDesde = ultimo[1].CbteNro + 1
        /\ SubmittedDetail.CbteHasta = ultimo[1].CbteNro + 1
    /\ (lookupPromise # <<>> /\ lookupPromise[1].kind = "resolved" /\ ultimo # <<>>) =>
        ultimo[1].CbteNro = lookupPromise[1].CbteNro
    /\ (ultimo # <<>> /\ ~Submitted) =>
        outcome = CreateInvoiceCatch(<<"DocNro invalido para DocTipo">>)

\* C1 witness: the caller asked for number 1 while the last authorized
\* number was 2, and the voucher went out with number 3.
C1_Witness ==
    /\ Submitted
    /\ invoiceData[1].numeroComprobante = <<1>>
    /\ lookupPromise[1].kind = "resolved"
    /\ lookupPromise[1].CbteNro = 2
    /\ SubmittedDetail.CbteDesde = 3
    /\ \E i \in 1..Len(calls) : calls[i].op = "submit"

\* C2: with last authorized date D, the submitted voucher date is D when
\* the caller's date is earlier than D and the caller's date when it is
\* D or later, so it is never earlier than D.
C2_DateClampedToLast ==
    Submitted =>
        LET D == ultimo[1].CbteFch
            pedido == invoiceData[1].fechaComprobante
            enviado == SubmittedDetail.CbteFch
        IN  /\ FechaNum(pedido) < FechaNum(D) => enviado = D
            /\ FechaNum(pedido) >= FechaNum(D) => enviado = pedido
            /\ FechaNum(enviado) >= FechaNum(D)
            /\ (lookupPromise[1].kind = "resolved" => D = lookupPromise[1].CbteFch)

\* C2 witness: a caller date earlier than the last authorized date, sent
\* as the last authorized date.
C2_Witness ==
    /\ Submitted
    /\ lookupPromise[1].kind = "resolved"
    /\ FechaNum(invoiceData[1].fechaComprobante) < FechaNum(lookupPromise[1].CbteFch)
    /\ SubmittedDetail.CbteFch = lookupPromise[1].CbteFch
    /\ SubmittedDetail.CbteFch # invoiceData[1].fechaComprobante

\* the three ways the remote lookup says there is no prior voucher
TransportNotFound(cb) ==
    /\ cb.err # <<>>
    /\ cb.err[1].root.kind = "absent"
    /\ \/ cb.err[1].statusCode = <<404>>
       \/ cb.err[1].status = <<404>>
       \/ cb.err[1].message \in { <<"Not", " ", "Found">>,
                                  <<"Comprobante", " ", "No", " ", "Encontrado">> }

FaultWithCode10015(cb) ==
    /\ cb.err = <<>>
    /\ cb.result.data # <<>>
    /\ \E i \in 1..Len(cb.result.data[1].Errors.list) :
            cb.result.data[1].Errors.list[i].Code = 10015

ZeroWithEmptyDate(cb) ==
    /\ cb.err = <<>>
    /\ cb.result.data # <<>>
    /\ cb.result.data[1].Errors.shape = "absent"
    /\ cb.result.data[1].CbteNro \in { <<>>, <<0>> }
    /\ cb.result.data[1].CbteFch = <<>>

NoPriorVoucherSignal(cb) ==
    TransportNotFound(cb) \/ FaultWithCode10015(cb) \/ ZeroWithEmptyDate(cb)

\* the date of the run as the number YYYYMMDD
TodayNumber == today.year * 10000 + (today.month0 + 1) * 100 + today.day

SubmitSent == \E i \in 1..Len(calls) : calls[i].op = "submit"

\* C3: when the answer to the lookup is one of the three no-prior-voucher
\* signals, getUltimoAutorizado settles, resolved with CbteNro 0 and CbteFch
\* the eight digits of today's date, and the voucher the run goes on to
\* build has number 1; such a run stops short of the submission only on
\* the receiver-document validation.
C3_NoPriorVoucherIsFirstVoucher ==
    (lookupCb # <<>> /\ NoPriorVoucherSignal(lookupCb[1])) =>
        /\ pc # "hung"
        /\ lookupPromise # <<>>
        /\ lookupPromise[1].kind = "resolved"
        /\ lookupPromise[1].CbteNro = 0
        /\ Len(lookupPromise[1].CbteFch) = 8
        /\ FechaNum(lookupPromise[1].CbteFch) = TodayNumber
        /\ Submitted =>
            SubmittedDetail.CbteDesde = 1 /\ SubmittedDetail.CbteHasta = 1
        /\ (pc = "done" /\ ~Submitted) =>
            outcome = CreateInvoiceCatch(<<"DocNro invalido para DocTipo">>)

\* C3 witness: the lookup answered with fault 10015 as a direct array, the
\* caller had asked for number 2, and the submit request went out for
\* number 1.
C3_Witness ==
    /\ lookupCb # <<>>
    /\ FaultWithCode10015(lookupCb[1])
    /\ lookupCb[1].result.data[1].Errors.shape = "flat"
    /\ invoiceData[1].numeroComprobante = <<2>>
    /\ SubmitSent
    /\ SubmittedDetail.CbteDesde = 1

\* a failed lookup: the callback got an error, or a result carrying faults
LookupFailed(cb) ==
    \/ cb.err # <<>>
    \/ cb.result.data # <<>> /\ Len(cb.result.data[1].Errors.list) > 0

\* not-found text in what the service said
NotFoundText(cb) ==
    LET texts == IF cb.err # <<>>
                 THEN { cb.err[1].message, cb.err[1].body, cb.err[1].root.text }
                 ELSE { cb.result.data[1].Errors.list[i].Msg :
                            i \in 1..Len(cb.result.data[1].Errors.list) }
    IN  \E t \in texts :
            \/ Includes(ToLowerCase(t), <<"not", " ", "found">>)
            \/ Includes(ToLowerCase(t), <<"no", " ", "encontrado">>)
            \/ Includes(ToLowerCase(t), <<"sin", " ", "comprobantes">>)

\* C4: a failed lookup that is no no-prior-voucher signal (no status 404,
\* no not-found text, no fault 10015) makes getUltimoAutorizado reject,
\* and the run builds no request and sends no submit.
C4_OtherFailuresReject ==
    (lookupCb # <<>> /\ LookupFailed(lookupCb[1])
        /\ ~NoPriorVoucherSignal(lookupCb[1]) /\ ~NotFoundText(lookupCb[1])) =>
        /\ lookupPromise # <<>>
        /\ lookupPromise[1].kind = "rejected"
        /\ ~Submitted
        /\ ~SubmitSent

\* C5: a ticket is found valid exactly when its expirationTime denotes an
\* instant strictly after the instant of the test: not at that instant,
\* not after it, and not when it denotes no instant.
C5_ValidStrictlyBeforeExpiry ==
    ticketCheck # <<>> =>
        (ticketCheck[1].valid <=>
            \E e \in 0..(MaxTime + TicketLife) :
                /\ ticketArg[1].expirationTime = IsoTime(e)
                /\ ticketCheck[1].at < e)

\* C5 witness: a ticket tested at the very instant it expires, found not
\* valid.
C5_Witness ==
    /\ ticketCheck # <<>>
    /\ ticketArg[1].expirationTime = IsoTime(ticketCheck[1].at)
    /\ ~ticketCheck[1].valid

Rank(op) == CASE op = "login" -> 1 [] op = "lookup" -> 2 [] op = "submit" -> 3

\* C6: the requests of a run go out as login, then lookup, then submit,
\* each at most once; a submit has gone out only after the lookup settled;
\* and the lookup and the submit carry the same token and sign.
C6_LoginLookupSubmitInOrder ==
    /\ \A i, j \in 1..Len(calls) : i < j => Rank(calls[i].op) < Rank(calls[j].op)
    /\ SubmitSent => (lookupPromise # <<>> /\ pc \notin {"lookupClient", "lookupCall", "hung"})
    /\ Submitted => lookupPromise # <<>>
    /\ \A i, j \in 1..Len(calls) :
        (calls[i].op = "lookup" /\ calls[j].op = "submit") =>
            (calls[i].token = calls[j].token /\ calls[i].sign = calls[j].sign)

\* C6 witness: a run that sent all three requests.
C6_Witness ==
    /\ Len(calls) = 3
    /\ calls[1].op = "login"
    /\ calls[2].op = "lookup"
    /\ calls[3].op = "submit"
    /\ calls[2].token = calls[3].token

Logins == { i \in 1..Len(calls) : calls[i].op = "login" }

\* C7: a run given a ticket found valid sends no login, runs no signer,
\* and its lookup and submit carry that ticket; a run given no ticket or a
\* ticket found not valid sends its lookup and submit only after exactly
\* one login for service wsfe, and they carry the ticket of that login,
\* not the caller's.
C7_TicketReusedOrAcquiredOnce ==
    LET given == ticketCheck # <<>> /\ ticketCheck[1].valid
    IN  /\ Cardinality(Logins) <= 1
        /\ \A i \in Logins : calls[i].service = "wsfe"
        /\ given =>
            /\ Logins = {}
            /\ signerRuns = 0
            /\ authTicket = ticketArg
            /\ \A i \in 1..Len(calls) :
                calls[i].token = ticketArg[1].token /\ calls[i].sign = ticketArg[1].sign
        /\ ~given =>
            \A i \in 1..Len(calls) : calls[i].op \in {"lookup", "submit"} =>
                /\ \E j \in Logins : j < i
                /\ signerRuns = 1
                /\ calls[i].token = "tokenB" /\ calls[i].sign = "signB"
                /\ calls[i].token = authTicket[1].token
                /\ authTicket # ticketArg

\* C7 witness: the caller's ticket was at its expiry instant; the run
\* logged in once and sent lookup and submit with the new ticket.
C7_Witness ==
    /\ ticketCheck # <<>>
    /\ ~ticketCheck[1].valid
    /\ ticketArg[1].token = "tokenA"
    /\ Cardinality(Logins) = 1
    /\ SubmitSent
    /\ \A i \in 1..Len(calls) : calls[i].op = "submit" => calls[i].token = "tokenB"

(***************************************************************************)
(* Properties of signTRA.                                                  *)
(***************************************************************************)
\* C8: once a call of signTRA has returned or thrown, none of the files it
\* staged is on disk, however the call ended; the only file allowed to
\* stay is one whose own deletion failed.
C8_NoStagedFileRemains ==
    signCalls > 0 => \A f \in disk : f \in unlinkErrors

\* PEM text with matching delimiters: a BEGIN line, later an END line, both
\* naming the same thing
MatchingDelimiters(text) ==
    \E i, j \in 1..Len(text) :
        /\ i < j /\ j < Len(text)
        /\ text[i] = "-----BEGIN"
        /\ text[j] = "-----END"
        /\ text[i + 1] = text[j + 1]

PemAsGivenOrDecodedOnce(value) ==
    MatchingDelimiters(value) \/ MatchingDelimiters(Base64Decode(value))

\* C9: signTRA runs the signer only for a certificate and a key that are,
\* as given or base64-decoded once, PEM text with matching BEGIN and END
\* delimiters; it does run it for such a pair when no file operation
\* fails; and for any other pair it ends in a validation error with no
\* file staged and the signer not run.
C9_SignerIffPemDelimitersMatch ==
    signInput # <<>> =>
        LET wellFormed == /\ PemAsGivenOrDecodedOnce(signInput[1].certificado)
                          /\ PemAsGivenOrDecodedOnce(signInput[1].clavePrivada)
        IN  /\ signReturn.signer => wellFormed
            /\ (wellFormed /\ signReturn.fault = "none") => signReturn.signer
            /\ (~wellFormed /\ signReturn.fault # "mkdir") =>
                /\ signReturn.result \in {"missing", "invalid"}
                /\ signReturn.staged = {}
                /\ ~signReturn.signer

(***************************************************************************)
(* Properties of the endpoint selection.                                   *)
(***************************************************************************)
\* C10: whatever the process environment, an operation called with
\* homologacion true contacts the testing (homologacion) authentication,
\* invoicing and registry endpoints, and called with homologacion false
\* the production ones.
C10_FlagSelectsEndpoints ==
    contacted # <<>> =>
        LET selected == IF contacted[1].homologacion THEN AFIP_URLS.homologacion
                        ELSE AFIP_URLS.production
        IN  \A svc \in DOMAIN contacted[1].endpoints :
                svc \in {"wsaa", "wsfe", "padron"} =>
                    contacted[1].endpoints[svc] = selected[svc]

(***************************************************************************)
(* Properties of the answer to the submission.                             *)
(***************************************************************************)
\* the submission was answered with a FECAESolicitarResult that holds a
\* voucher detail
Answered ==
    /\ submitCb # <<>> /\ submitCb[1].err = <<>>
    /\ submitCb[1].FeDetResp \in {"array", "single"}

\* the header faults and the detail observations of the answer, in the
\* order of the answer, whatever their encoding
HeaderFaults == submitCb[1].Errors.list

DetailObservations == submitCb[1].factura.Observaciones.list

\* a fault or observation that says something: it has a message or is a
\* text
HasText(item) == item.Msg # <<>> /\ item.Msg[1] # <<>>

HasCode(item) == item.kind = "object" /\ item.Code # <<>> /\ item.Code[1] # 0

\* the pair a fault or observation is to be reported as
PairOf(item) == [code |-> IF HasCode(item) THEN item.Code[1] ELSE 0, msg |-> item.Msg[1]]

\* C11: whenever the answer has Resultado 'R' the promise of createInvoice
\* is rejected, and the observaciones of the exception hold every header
\* fault and every detail observation of the answer as a {code, msg} pair;
\* when the only fault of the answer is the header fault {10049, m}, they
\* are exactly [{10049, m}].
C11_RejectionCarriesEveryObservation ==
    (Answered /\ submitCb[1].factura.Resultado = "R") =>
        /\ outcome.kind = "rejected"
        /\ \A i \in 1..Len(HeaderFaults \o DetailObservations) :
              LET item == (HeaderFaults \o DetailObservations)[i]
              IN  HasText(item) =>
                    \E j \in 1..Len(outcome.excepcionObservaciones) :
                        outcome.excepcionObservaciones[j] = PairOf(item)
        /\ (/\ Len(HeaderFaults) = 1 /\ DetailObservations = <<>>
            /\ HasCode(HeaderFaults[1]) /\ HeaderFaults[1].Code[1] = 10049
            /\ HasText(HeaderFaults[1]))
           => outcome.excepcionObservaciones = <<PairOf(HeaderFaults[1])>>

\* the structured list handed to the caller: observaciones of the
\* exception, observacionesDetalladas of the result
StructuredList ==
    IF outcome.kind = "rejected" THEN outcome.excepcionObservaciones
    ELSE outcome.observacionesDetalladas

AllHaveText(items) == \A i \in 1..Len(items) : HasText(items[i])

\* C12: for every answer that holds a voucher detail, in every encoding of
\* Errors and of Observaciones, the structured list has exactly one entry
\* per header fault and per detail observation, the header faults first,
\* each group in the order of the answer, with the remote code where
\* there is one and code 0 for a text without code.
C12_OneEntryPerFaultAndObservation ==
    (Answered /\ pc = "done" /\ AllHaveText(HeaderFaults \o DetailObservations)) =>
        StructuredList =
            [i \in 1..Len(HeaderFaults \o DetailObservations) |->
                PairOf((HeaderFaults \o DetailObservations)[i])]

\* a code and a message are in what the caller receives: as a pair of the
\* structured list, or inside the message of the exception
Delivered(pair) ==
    \/ \E j \in 1..Len(StructuredList) : StructuredList[j] = pair
    \/ /\ outcome.kind = "rejected"
       /\ Includes(outcome.message, NumToStr(pair.code))
       /\ Includes(outcome.message, pair.msg)

\* C13: whenever the answer holds a header fault with a code, what
\* createInvoice delivers holds the code and the message of that fault;
\* also when the answer has no FeDetResp or no FECAEDetResponse.
C13_CodedHeaderFaultIsDelivered ==
    (submitCb # <<>> /\ submitCb[1].err = <<>> /\ pc = "done") =>
        \A i \in 1..Len(HeaderFaults) :
            (HasCode(HeaderFaults[i]) /\ HasText(HeaderFaults[i])) =>
                Delivered(PairOf(HeaderFaults[i]))

\* C14: a result of createInvoice holds qrData only if its resultado is
\* 'A'; an answer with Resultado 'P' makes the promise resolve with the
\* authorization code and its expiry date, and without qrData.
C14_QrOnlyWhenApproved ==
    /\ (outcome.kind = "resolved" /\ outcome.qrData # <<>>) => outcome.resultado = "A"
    /\ (Answered /\ pc = "done" /\ submitCb[1].factura.Resultado = "P") =>
            /\ outcome.kind = "resolved"
            /\ outcome.resultado = "P"
            /\ submitCb[1].factura.CAE # <<>> => outcome.cae = submitCb[1].factura.CAE[1]
            /\ submitCb[1].factura.CAEFchVto # <<>> =>
                    outcome.caeFchVto = submitCb[1].factura.CAEFchVto[1]
            /\ outcome.qrData = <<>>

\* a partially approved voucher with an authorization code has been
\* delivered
C14_Witness ==
    /\ Answered /\ pc = "done"
    /\ submitCb[1].factura.Resultado = "P"
    /\ submitCb[1].factura.CAE = <<CAE>>
    /\ outcome.kind = "resolved"
    /\ outcome.cae = CAE
    /\ outcome.caeFchVto = CAEFchVto
    /\ outcome.qrData = <<>>

(***************************************************************************)
(* Properties of generateQrData.                                           *)
(***************************************************************************)
\* the base64 text of a URL: what follows the template
Base64Of(url) == SubSeq(url, Len(QR_URL) + 1, Len(url))

ScenarioUrl ==
    <<"h", "t", "t", "p", "s", ":", "/", "/", "w", "w", "w", ".", "a", "f", "i", "p",
        ".", "g", "o", "b", ".", "a", "r", "/", "f", "e", "/", "q", "r", "/", "?", "p",
        "=", "e", "y", "J", "2", "Z", "X", "I", "i", "O", "j", "E", "s", "I", "m", "Z",
        "l", "Y", "2", "h", "h", "I", "j", "o", "i", "M", "j", "A", "y", "N", "S", "0",
        "x", "M", "i", "0", "w", "N", "S", "I", "s", "I", "m", "N", "1", "a", "X", "Q",
        "i", "O", "j", "I", "w", "M", "T", "I", "z", "N", "D", "U", "2", "N", "z", "g",
        "5", "L", "C", "J", "w", "d", "G", "9", "W", "d", "G", "E", "i", "O", "j", "E",
        "s", "I", "n", "R", "p", "c", "G", "9", "D", "b", "X", "A", "i", "O", "j", "Y",
        "s", "I", "m", "5", "y", "b", "0", "N", "t", "c", "C", "I", "6", "M", "S", "w",
        "i", "a", "W", "1", "w", "b", "3", "J", "0", "Z", "S", "I", "6", "M", "T", "I",
        "x", "M", "C", "w", "i", "b", "W", "9", "u", "Z", "W", "R", "h", "I", "j", "o",
        "i", "U", "E", "V", "T", "I", "i", "w", "i", "Y", "3", "R", "6", "I", "j", "o",
        "x", "L", "C", "J", "0", "a", "X", "B", "v", "R", "G", "9", "j", "U", "m", "V",
        "j", "I", "j", "o", "5", "N", "i", "w", "i", "b", "n", "J", "v", "R", "G", "9",
        "j", "U", "m", "V", "j", "I", "j", "o", "w", "L", "C", "J", "0", "a", "X", "B",
        "v", "Q", "2", "9", "k", "Q", "X", "V", "0", "I", "j", "o", "i", "R", "S", "I",
        "s", "I", "m", "N", "v", "Z", "E", "F", "1", "d", "C", "I", "6", "N", "z", "E",
        "y", "M", "z", "Q", "1", "N", "j", "c", "4", "O", "T", "A", "x", "M", "j", "N",
        "9">>

SextetOf(c) == (CHOOSE i \in 1..Len(Base64Alphabet) : Base64Alphabet[i] = c) - 1

\* the text a base64 string stands for
DecodedText(b64) ==
    LET pads == Cardinality({ i \in 1..Len(b64) : b64[i] = "=" })
        Six(k) == IF b64[k] = "=" THEN 0 ELSE SextetOf(b64[k])
        ByteAt(k) ==
            LET g == 4 * ((k - 1) \div 3)
            IN  CASE (k - 1) % 3 = 0 -> Six(g + 1) * 4 + Six(g + 2) \div 16
                  [] (k - 1) % 3 = 1 -> (Six(g + 2) % 16) * 16 + Six(g + 3) \div 4
                  [] (k - 1) % 3 = 2 -> (Six(g + 3) % 4) * 64 + Six(g + 4)
    IN  [k \in 1..(3 * (Len(b64) \div 4) - pads) |-> AsciiPrintable[ByteAt(k) - 31]]

\* the compact JSON text of the mandated fields of a payload, in their
\* order, the issuer and the authorization code written as integers
MandatedJson(q) ==
    <<"{", "\"", "v", "e", "r", "\"", ":">> \o NumToStr(q.ver)
    \o <<",", "\"", "f", "e", "c", "h", "a", "\"", ":", "\"">> \o q.fecha \o <<"\"">>
    \o <<",", "\"", "c", "u", "i", "t", "\"", ":">> \o q.cuit
    \o <<",", "\"", "p", "t", "o", "V", "t", "a", "\"", ":">> \o NumToStr(q.ptoVta)
    \o <<",", "\"", "t", "i", "p", "o", "C", "m", "p", "\"", ":">> \o NumToStr(q.tipoCmp)
    \o <<",", "\"", "n", "r", "o", "C", "m", "p", "\"", ":">> \o NumToStr(q.nroCmp)
    \o <<",", "\"", "i", "m", "p", "o", "r", "t", "e", "\"", ":">> \o NumToStr(q.importe)
    \o <<",", "\"", "m", "o", "n", "e", "d", "a", "\"", ":", "\"">> \o q.moneda \o <<"\"">>
    \o <<",", "\"", "c", "t", "z", "\"", ":">> \o NumToStr(q.ctz)
    \o <<",", "\"", "t", "i", "p", "o", "D", "o", "c", "R", "e", "c", "\"", ":">>
        \o NumToStr(q.tipoDocRec)
    \o <<",", "\"", "n", "r", "o", "D", "o", "c", "R", "e", "c", "\"", ":">> \o q.nroDocRec
    \o <<",", "\"", "t", "i", "p", "o", "C", "o", "d", "A", "u", "t", "\"", ":", "\"">>
        \o q.tipoCodAut \o <<"\"">>
    \o <<",", "\"", "c", "o", "d", "A", "u", "t", "\"", ":">> \o q.codAut
    \o <<"}">>

RunUrl ==
    <<"h", "t", "t", "p", "s", ":", "/", "/", "w", "w", "w", ".", "a", "f", "i", "p",
        ".", "g", "o", "b", ".", "a", "r", "/", "f", "e", "/", "q", "r", "/", "?", "p",
        "=", "e", "y", "J", "2", "Z", "X", "I", "i", "O", "j", "E", "s", "I", "m", "Z",
        "l", "Y", "2", "h", "h", "I", "j", "o", "i", "M", "j", "A", "y", "N", "S", "0",
        "w", "M", "S", "0", "w", "O", "S", "I", "s", "I", "m", "N", "1", "a", "X", "Q",
        "i", "O", "j", "I", "w", "M", "y", "w", "i", "c", "H", "R", "v", "V", "n", "R",
        "h", "I", "j", "o", "x", "L", "C", "J", "0", "a", "X", "B", "v", "Q", "2", "1",
        "w", "I", "j", "o", "2", "L", "C", "J", "u", "c", "m", "9", "D", "b", "X", "A",
        "i", "O", "j", "M", "s", "I", "m", "l", "t", "c", "G", "9", "y", "d", "G", "U",
        "i", "O", "j", "E", "y", "M", "T", "A", "s", "I", "m", "1", "v", "b", "m", "V",
        "k", "Y", "S", "I", "6", "I", "l", "B", "F", "U", "y", "I", "s", "I", "m", "N",
        "0", "e", "i", "I", "6", "M", "S", "w", "i", "d", "G", "l", "w", "b", "0", "R",
        "v", "Y", "1", "J", "l", "Y", "y", "I", "6", "O", "D", "A", "s", "I", "m", "5",
        "y", "b", "0", "R", "v", "Y", "1", "J", "l", "Y", "y", "I", "6", "M", "j", "c",
        "s", "I", "n", "R", "p", "c", "G", "9", "D", "b", "2", "R", "B", "d", "X", "Q",
        "i", "O", "i", "J", "F", "I", "i", "w", "i", "Y", "2", "9", "k", "Q", "X", "V",
        "0", "I", "j", "o", "3", "M", "T", "I", "z", "N", "D", "U", "2", "N", "z", "g",
        "5", "M", "D", "E", "y", "M", "3", "0", "=">>

Built == ultimo # <<>> /\ pc \in {"submitClient", "submitCall", "done"}

\* the digits of cuitCliente without its dashes spell an integer above 0
ParsesPositive(cuitCliente) ==
    /\ RemoveDashes(cuitCliente) # <<>>
    /\ IsDigit(RemoveDashes(cuitCliente)[1])
    /\ DigitPrefixVal(RemoveDashes(cuitCliente), 0) > 0

DetailsVat(tipoComprobante) ==
    tipoComprobante \in {1, 2, 3, 4, 6, 7, 8, 9, 51, 52, 53, 201, 202, 203, 206, 207, 208}

\* C18: the submitted voucher carries the caller's VAT array unchanged
\* when there is one; otherwise, for a class that details its VAT (the
\* credit invoices of those classes included) and a VAT amount that is not
\* zero, exactly one entry with the Id of 21%, the net amount as base and
\* the VAT amount; in every other case no VAT breakdown.
C18_VatBreakdown ==
    Submitted =>
        LET dto == invoiceData[1]
        IN  SubmittedDetail.Iva =
                (IF dto.iva # <<>> THEN dto.iva
                 ELSE IF DetailsVat(dto.tipoComprobante) /\ dto.importeIva # 0
                 THEN <<[Id |-> 5, BaseImp |-> dto.importeNetoGravado, Importe |-> dto.importeIva]>>
                 ELSE <<>>)

\* C19: without a receiver VAT condition from the caller the submitted
\* IvaCond is 1 (responsible registered) for vouchers of class A and M and
\* 5 (final consumer) for class B and C, type 11 for one; a condition the
\* caller gives is submitted as it is, also when the class does not allow
\* it, and the run is not stopped for it.
C19_IvaCondDefaultOrAsGiven ==
    (Built /\ invoiceData[1].tipoDocumento = 99) =>
        LET dto == invoiceData[1]
        IN  /\ Submitted
            /\ IF dto.condicionIvaReceptor = <<>>
               THEN /\ dto.tipoComprobante \in {1, 2, 3, 4, 51, 52, 53} =>
                            SubmittedDetail.IvaCond = <<1>>
                    /\ dto.tipoComprobante \in {6, 7, 8, 9, 11, 12, 13, 15} =>
                            SubmittedDetail.IvaCond = <<5>>
               ELSE SubmittedDetail.IvaCond = dto.condicionIvaReceptor

\* a factura A for a final consumer, a condition class A does not allow,
\* was submitted with it
C19_Witness ==
    /\ Built /\ Submitted
    /\ invoiceData[1].tipoComprobante = 1
    /\ invoiceData[1].condicionIvaReceptor = <<5>>
    /\ 5 \notin getCondicionesIvaValidas("A")
    /\ invoiceData[1].condicionIvaReceptor[1] \notin getCondicionesIvaValidas("A")
    /\ SubmittedDetail.IvaCond = <<5>>
    /\ \E i \in 1..Len(calls) : calls[i].op = "submit"

\* the caller's date, or the date of the voucher when the caller left it
\* unset
GivenOrVoucherDate(given) == IF given # <<>> THEN given ELSE <<SubmittedDetail.CbteFch>>

ServiceConcept == invoiceData[1].concepto \in {2, 3}

\* C20 as stated: in every submitted voucher FchServDesde, FchServHasta
\* and FchVtoPago are present if and only if the concept is 2 or 3, and
\* each one the caller left unset is the submitted voucher date.
C20_ServiceDatesIffServiceConcept ==
    Submitted =>
        LET dto == invoiceData[1]
            d == SubmittedDetail
        IN  IF ServiceConcept
            THEN /\ d.FchServDesde = GivenOrVoucherDate(dto.fechaServicioDesde)
                 /\ d.FchServHasta = GivenOrVoucherDate(dto.fechaServicioHasta)
                 /\ d.FchVtoPago = GivenOrVoucherDate(dto.fechaVencimientoPago)
            ELSE d.FchServDesde = <<>> /\ d.FchServHasta = <<>> /\ d.FchVtoPago = <<>>

\* C20, amended: FchServDesde and FchServHasta are present if and only if
\* the concept is 2 or 3; FchVtoPago is present if and only if the concept
\* is 2 or 3 or the voucher is a credit invoice (types 201 to 213) given
\* with fceVtoPago, which it then holds; for concept 2 or 3 each of the
\* three is the caller's service date or, when that is unset, the
\* submitted voucher date.
C20_ServiceDatesOrCreditInvoiceDueDate ==
    Submitted =>
        LET dto == invoiceData[1]
            d == SubmittedDetail
        IN  IF ServiceConcept
            THEN /\ d.FchServDesde = GivenOrVoucherDate(dto.fechaServicioDesde)
                 /\ d.FchServHasta = GivenOrVoucherDate(dto.fechaServicioHasta)
                 /\ d.FchVtoPago = GivenOrVoucherDate(dto.fechaVencimientoPago)
            ELSE /\ d.FchServDesde = <<>> /\ d.FchServHasta = <<>>
                 /\ d.FchVtoPago =
                        (IF dto.tipoComprobante \in 201..213 /\ dto.fceVtoPago # <<>>
                         THEN dto.fceVtoPago
                         ELSE <<>>)

\* a credit invoice for products given with fceVtoPago was submitted with
\* that date as FchVtoPago and no service period
C20_Witness ==
    /\ Submitted
    /\ invoiceData[1].concepto = 1
    /\ invoiceData[1].tipoComprobante = 201
    /\ invoiceData[1].fceVtoPago # <<>>
    /\ SubmittedDetail.FchVtoPago = invoiceData[1].fceVtoPago
    /\ SubmittedDetail.FchServDesde = <<>>
    /\ \E i \in 1..Len(calls) : calls[i].op = "submit"

(***************************************************************************)
(* Properties of the failures of a run.                                    *)
(***************************************************************************)
Sent(op) == { i \in 1..Len(calls) : calls[i].op = op }

\* the lookup of the run failed: the client of the invoicing endpoint could
\* not be created, or the callback got an error or a fault list that is
\* none of the no-prior-voucher signals
LookupClientFailed == lookupPromise # <<>> /\ lookupCb = <<>>

LookupStepFailed ==
    \/ LookupClientFailed
    \/ lookupCb # <<>> /\ LookupFailed(lookupCb[1]) /\ ~NoPriorVoucherSignal(lookupCb[1])

\* C21: no remote step is retried and a failed step ends the run: the
\* signer runs at most once and the login, the lookup and the submit go
\* out at most once each; no login goes out after the signer failed; after
\* a failed lookup no submit goes out; and a run that ended after a failed
\* lookup or a failed submit ended rejected.
C21_NoRetryAndFailuresSurface ==
    /\ signerRuns <= 1
    /\ Cardinality(Sent("login")) <= 1
    /\ Cardinality(Sent("lookup")) <= 1
    /\ Cardinality(Sent("submit")) <= 1
    /\ Includes(outcome.message, <<"Error al firmar el TRA: ">>) => Sent("login") = {}
    /\ LookupStepFailed =>
        /\ Sent("submit") = {}
        /\ pc = "done" => outcome.kind = "rejected"
    /\ (submitCb # <<>> /\ submitCb[1].err # <<>>) => outcome.kind = "rejected"

(***************************************************************************)
(* Properties of runs side by side.                                        *)
(***************************************************************************)
\* the runs whose submit request has gone out and is not yet answered
AwaitingAnswer == { r \in DOMAIN runs : runs[r].pc = "submitCall" }

\* C22: two runs for the same issuer, sales point and voucher type whose
\* submit requests are out at the same time carry different voucher
\* numbers.
C22_ConcurrentRunsCarryDistinctNumbers ==
    \A r1, r2 \in AwaitingAnswer :
        r1 # r2 => runs[r1].CbteDesde # runs[r2].CbteDesde

(***************************************************************************)
(* Properties of the result code.                                          *)
(***************************************************************************)
\* the callback of the submission got a response it could parse
Parsed ==
    /\ submitCb # <<>>
    /\ submitCb[1].err = <<>>
    /\ submitCb[1].FeDetResp \in {"array", "single"}

\* C23: of a parsed response, a result code R is raised as an error, and
\* a run resolves only with result code A or P: a response without a
\* result code, or with any other, is not returned as a result.
C23_ResolvedOnlyWhenApprovedOrPartial ==
    Parsed =>
        /\ submitCb[1].factura.Resultado = "R" => outcome.kind = "rejected"
        /\ outcome.kind = "resolved" => outcome.resultado \in {"A", "P"}

(***************************************************************************)
(* Properties of the errors the caller receives.                           *)
(***************************************************************************)
FailureClasses == {"validation", "signing", "transport", "protocol"}

\* what createInvoice rejects with when the acquisition of its ticket
\* fails, by the class of the failure: malformed credential material, a
\* failed external signer, an endpoint that cannot be reached or does not
\* answer, a ticket response that cannot be parsed
TicketFailures(class) ==
    LET messages ==
            CASE class = "validation" -> { SignMessage("missing"), SignMessage("invalid") }
              [] class = "signing" -> { SignMessage("signerFailed") }
              [] class = "transport" -> { <<"Error al crear cliente SOAP: ">>,
                                          <<"Error al llamar WSAA: ">> }
              [] class = "protocol" -> { <<"Error al parsear respuesta: ">> }
    IN  { CreateInvoiceCatch(GetTicketCatch(m)) : m \in messages }

\* C24: the error a run ends with tells the class of the failure: the
\* error of a failure of one class is of another kind than the error of
\* every failure of every other class.
C24_FailureClassesHaveDistinctKinds ==
    \A class \in FailureClasses :
        (pc = "done" /\ outcome \in TicketFailures(class)) =>
            \A other \in FailureClasses \ {class} :
                \A o \in TicketFailures(other) : o.exception # outcome.exception

(***************************************************************************)
(* Properties of the shipped examples.                                     *)
(***************************************************************************)
\* the Factura B request of the examples: voucher type 6, document type
\* 96 with cuitCliente '0', product concept, number 0
ExampleFacturaB ==
    /\ invoiceData # <<>>
    /\ invoiceData[1].tipoComprobante = 6
    /\ invoiceData[1].tipoDocumento = 96
    /\ invoiceData[1].cuitCliente = <<"0">>
    /\ invoiceData[1].numeroComprobante = <<0>>
    /\ invoiceData[1].concepto = 1

\* C25: once the lookup of a run for the example request has yielded the
\* last voucher, the run is not stopped: it builds the request with the
\* number after the last one and goes on to the submission.
C25_ExampleFacturaBReachesSubmit ==
    (ExampleFacturaB /\ ultimo # <<>>) =>
        /\ Submitted
        /\ SubmittedDetail.CbteDesde = ultimo[1].CbteNro + 1
        /\ pc \in {"submitClient", "submitCall", "done"}
        /\ pc = "done" => (SubmitSent \/ Includes(outcome.message,
                                <<"Error al crear cliente SOAP WSFE: ">>))

(***************************************************************************)
(* Properties of the faults of the lookup.                                 *)
(***************************************************************************)
\* the lookup answered with a fault list in which no entry has code 10015
\* or not-found text
RealFaults ==
    /\ lookupCb # <<>>
    /\ lookupCb[1].err = <<>>
    /\ lookupCb[1].result.data # <<>>
    /\ Len(lookupCb[1].result.data[1].Errors.list) > 0
    /\ ~FaultWithCode10015(lookupCb[1])
    /\ ~NotFoundText(lookupCb[1])

\* C26: a fault list without code 10015 and without not-found text makes
\* getUltimoAutorizado reject, with a message that carries the text of
\* every fault, whether the list comes as a direct array, as Errors.Err
\* holding an array or as Errors.Err holding one object.
C26_RealFaultsRejectInEveryEncoding ==
    RealFaults =>
        /\ lookupPromise # <<>>
        /\ lookupPromise[1].kind = "rejected"
        /\ \A i \in 1..Len(lookupCb[1].result.data[1].Errors.list) :
                Includes(lookupPromise[1].message, lookupCb[1].result.data[1].Errors.list[i].Msg)

\* C27: when the client of the invoicing endpoint cannot be created for
\* the lookup, whatever the failure says, the run builds no request, sends
\* no submit, and ends rejected.
C27_UnreachableLookupEndpointFailsRun ==
    LookupClientFailed =>
        /\ ~Submitted
        /\ Sent("submit") = {}
        /\ pc \in {"lookupSettled", "done"}
        /\ pc = "done" =>
            /\ outcome.kind = "rejected"
            /\ Includes(outcome.message, <<"cliente", " ", "SOAP", " ", "WSFE">>)

(***************************************************************************)
(* Properties of the ticket over the time of a run.                        *)
(***************************************************************************)
\* C28: at the moment the submit request goes out, the ticket whose token
\* and sign it carries has an expirationTime strictly after the clock.
C28_TicketValidWhenSubmitGoesOut ==
    pc = "submitCall" =>
        /\ fecaeReq[1].Auth.Token = authTicket[1].token
        /\ fecaeReq[1].Auth.Sign = authTicket[1].sign
        /\ \E e \in 0..(MaxTime + TicketLife + 1) :
            /\ authTicket[1].expirationTime = IsoTime(e)
            /\ now < e

(***************************************************************************)
(* Properties of termination.                                              *)
(***************************************************************************)
\* C29: a lookup whose request has gone out is settled in the end: once
\* the SOAP layer has invoked the callback, whatever it hands to it, the
\* promise of getUltimoAutorizado is resolved or rejected, and the run
\* that awaits it goes on.
C29_LookupEventuallySettles ==
    (pc = "lookupCall") ~> (lookupPromise # <<>> /\ pc # "hung")

(***************************************************************************)
(* Properties of the credit invoice.                                       *)
(***************************************************************************)
\* C30: the voucher submitted for an electronic credit invoice (types 201
\* to 213) whose caller supplied fceVtoPago has FchVtoPago equal to
\* fceVtoPago, for concept 1, 2 and 3.
C30_CreditInvoiceDueDateIsFceVtoPago ==
    (/\ Built
     /\ invoiceData[1].tipoComprobante \in 201..213
     /\ invoiceData[1].fceVtoPago # <<>>
     /\ invoiceData[1].fceVtoPago[1] # <<>>) =>
        SubmittedDetail.FchVtoPago = invoiceData[1].fceVtoPago

=============================================================================
